---- MODULE Spec2Model ----
(***************************************************************************)
(* Model of hybridgm_bundle.py: the save / journal persistence core.       *)
(*                                                                         *)
(* Python values are modelled as follows.  A dict is a function whose      *)
(* DOMAIN is its key set (an absent key is a key outside the DOMAIN), a    *)
(* list is a sequence.  Scalars that the code tests dynamically (None, "", *)
(* int / str) carry a tag: None_ , StrV(s), IntV(n), Obj.  A file is       *)
(* Missing or File(content).                                               *)
(***************************************************************************)
EXTENDS Integers, Sequences, FiniteSets, TLC

VARIABLES
    SAVE,            \* the caller's in-memory save document
    save_file,       \* SAVE_PATH on storage
    snapshots,       \* SAVES_DIR: snapshot file name -> file
    journal_file,    \* JOURNAL_PATH on storage
    journal_schema,  \* JOURNAL_SCHEMA_PATH on storage (external, read-only)
    save_schema,     \* SCHEMA_PATH on storage (external, read-only)
    import_file,     \* the file at the path handed to import_save_merge
    ret,             \* outcome of the last call (what the caller observes)
    pre,             \* history: the state the last call started from
    hist,            \* history: one summary per call made so far
    callers          \* concurrent callers: each one's own document and position

vars == <<SAVE, save_file, snapshots, journal_file, journal_schema, save_schema, import_file,
          ret, pre, hist, callers>>

-----------------------------------------------------------------------------
(* Python values *)

None_ == <<"#none">>
StrV(s) == <<"#str", s>>
IntV(n) == <<"#int", n>>
Obj == <<"#object">>
ListV(seq) == <<"#list", seq>>
DictV(d) == <<"#dict", d>>

IsNone(v) == v[1] = "#none"
IsStr(v) == v[1] = "#str"
IsInt(v) == v[1] = "#int"

EmptyDict == [k \in {} |-> None_]

Has(d, k) == k \in DOMAIN d
Get(d, k, default) == IF Has(d, k) THEN d[k] ELSE default
Put(d, k, v) == [x \in (DOMAIN d) \cup {k} |-> IF x = k THEN v ELSE d[x]]
SetDefault(d, k, v) == IF Has(d, k) THEN d ELSE Put(d, k, v)
Update(d, e) == [x \in (DOMAIN d) \cup (DOMAIN e) |-> IF Has(e, x) THEN e[x] ELSE d[x]]

\* x or y, for a tagged scalar x
Or(x, y) == IF x = None_ \/ x = StrV("") \/ x = IntV(0) THEN y ELSE x

\* v in (None, "")
InNoneOrEmpty(v) == v = None_ \/ v = StrV("")

Missing == <<"#missing">>
File(content) == <<"#file", content>>
Exists(f) == f[1] = "#file"
\* a file that exists and is not JSON
Garbage == <<"#not-json">>

Last(s, n) == IF Len(s) > n THEN SubSeq(s, Len(s) - n + 1, Len(s)) ELSE s
Range(s) == {s[i] : i \in 1..Len(s)}
IsPrefix(s, t) == Len(s) <= Len(t) /\ SubSeq(t, 1, Len(s)) = s

-----------------------------------------------------------------------------
(* int(x) and str(x) *)

MaxParse == 9

\* int(v): [ok, n]; a str parses when it is the decimal numeral of an integer
IntOf(v) ==
    IF IsInt(v) THEN [ok |-> TRUE, n |-> v[2]]
    ELSE IF IsStr(v) /\ (\E n \in -MaxParse..MaxParse : ToString(n) = v[2])
         THEN [ok |-> TRUE, n |-> CHOOSE n \in -MaxParse..MaxParse : ToString(n) = v[2]]
         ELSE [ok |-> FALSE, n |-> 0]

\* f"{v}"
Format(v) ==
    IF IsInt(v) THEN ToString(v[2])
    ELSE IF IsStr(v) THEN v[2]
    ELSE "None"

\* mode.upper()
Upper(mode) ==
    CASE mode = "ic" -> "IC"
      [] mode = "Ic" -> "IC"
      [] mode = "gm" -> "GM"
      [] OTHER -> mode

-----------------------------------------------------------------------------
(* Hasher *)

\* json.dumps(SAVE, ensure_ascii=False, indent=2) and json.loads
DumpJson(obj) == <<"#json-indent", obj>>
LoadJson(text) == text[2]

\* json.dumps(save) succeeds iff the document holds no non-JSON object; the
\* only place the modelled documents hold one (Obj) is the key "handle"
Serializable(save) == ~(Has(save, "handle") /\ save["handle"] = Obj)

\* hashlib.sha256(...).hexdigest(): distinct inputs give distinct digests
Sha256(text) == <<"#sha256", text>>

\* json.dumps(obj, sort_keys=True, separators=...): one text per document,
\* whatever the insertion order of its keys
SortedJson(obj) == <<"#json", obj>>

\* repr(save)
Repr(save) == <<"#repr", save>>

compute_save_hash(save) ==
    IF Serializable(save)
    THEN LET clone == save
             flags == Get(clone, "flags", EmptyDict)
             integ == Get(flags, "integrity", EmptyDict)
             zeroed == IF Has(integ, "save_hash")
                       THEN Put(clone, "flags",
                                Put(flags, "integrity", Put(integ, "save_hash", StrV(""))))
                       ELSE clone
         IN Sha256(SortedJson(zeroed))
    ELSE Sha256(Repr(save))

\* dict(save): a copy whose flags entry is the caller's own flags dict
CloneForHash_Shallow(save) == [doc |-> save, shares_flags |-> TRUE]

\* line 32: json.loads(json.dumps(save)) builds new dicts at every depth,
\* equal to the ones dumped
CloneForHash(save) ==
    [doc |-> LoadJson(DumpJson(save)), shares_flags |-> FALSE]

\* lines 33-38 act on the clone: the caller's document shows the zeroed
\* save_hash only if the clone shares its flags dict; when json.dumps raises
\* (line 40) nothing has been written
DocumentAfterHash(save, clone) ==
    IF Serializable(save) /\ clone.shares_flags
       /\ Has(Get(Get(clone.doc, "flags", EmptyDict), "integrity", EmptyDict), "save_hash")
    THEN Put(save, "flags",
             Put(save["flags"], "integrity",
                 Put(save["flags"]["integrity"], "save_hash", StrV(""))))
    ELSE save

\* SAVE.setdefault("flags", {}).setdefault("integrity", {})
EnsureIntegrity(save) ==
    LET flags == Get(save, "flags", EmptyDict)
    IN Put(save, "flags", SetDefault(flags, "integrity", EmptyDict))

SetSaveHash(save, h) ==
    Put(save, "flags",
        Put(save["flags"], "integrity", Put(save["flags"]["integrity"], "save_hash", h)))

-----------------------------------------------------------------------------
(* Post-turn routine: end_turn *)

DialogueCap == 10

_ensure_lists(obj) ==
    EnsureIntegrity(
        SetDefault(SetDefault(SetDefault(obj, "dialogue_log", <<>>), "turn_log", <<>>),
                   "turn_tags", <<>>))

IsIC(mode) == Upper(mode) = "IC"

\* the increment applied whatever the mode
AdvanceTurn_IgnoresMode(save, mode) ==
    LET i == IntOf(Get(save, "turn", IntV(0)))
    IN Put(save, "turn", IF i.ok THEN IntV(i.n + 1) ELSE IntV(1))

\* the counter restarted at 1 on every advance
AdvanceTurn_Restarts(save, mode) ==
    IF ~IsIC(mode) THEN Put(save, "turn", IntV(1)) ELSE save

\* lines 165-169
AdvanceTurn(save, mode) ==
    IF ~IsIC(mode)
    THEN LET i == IntOf(Get(save, "turn", IntV(0)))
         IN Put(save, "turn", IF i.ok THEN IntV(i.n + 1) ELSE IntV(1))
    ELSE save

\* lines 170-176
DialogueEntry(save, scene_ref, dialogue_lines, choice_taken, scene_tags) ==
    [turn   |-> Get(save, "turn", IntV(0)),
     scene  |-> Or(scene_ref, StrV("")),
     lines  |-> dialogue_lines,
     choice |-> choice_taken,
     tags   |-> scene_tags]

\* the cap applied by dropping the newest entries
AppendDialogue_KeepsOldest(log, entry) ==
    LET appended == Append(log, entry)
    IN IF Len(appended) > DialogueCap THEN SubSeq(appended, 1, DialogueCap) ELSE appended

\* lines 177-179
AppendDialogue(log, entry) ==
    LET appended == Append(log, entry)
    IN IF Len(appended) > DialogueCap
       THEN SubSeq(appended, Len(appended) - DialogueCap + 1, Len(appended))
       ELSE appended

\* the tags appended without the known-set test
AddTags_NoDedup(turn_tags, scene_tags) == turn_tags \o scene_tags

\* lines 181-185: the loop over scene_tags, known being set(turn_tags)
RECURSIVE AddTags(_, _)
AddTags(turn_tags, scene_tags) ==
    IF scene_tags = <<>> THEN turn_tags
    ELSE LET t == Head(scene_tags)
         IN AddTags(IF t \in Range(turn_tags) THEN turn_tags ELSE Append(turn_tags, t),
                    Tail(scene_tags))

\* the merge-time cap of 50 applied on the normal append as well
AppendTurnLog_Capped(log, pair) ==
    IF Len(log) + 1 > 50 THEN SubSeq(Append(log, pair), Len(log) - 48, Len(log) + 1)
    ELSE Append(log, pair)

\* line 180: SAVE["turn_log"].append(...)
AppendTurnLog(log, pair) == Append(log, pair)

\* lines 170-185, on the document whose turn has been advanced
LogTurn(save, scene_ref, dialogue_lines, scene_tags, choice_taken) ==
    [k \in DOMAIN save |->
        CASE k = "dialogue_log" ->
                 AppendDialogue(save[k], DialogueEntry(save, scene_ref, dialogue_lines,
                                                       choice_taken, scene_tags))
          [] k = "turn_log" ->
                 AppendTurnLog(save[k], [turn |-> Get(save, "turn", IntV(0)),
                                         ref |-> Or(scene_ref, StrV(""))])
          [] k = "turn_tags" -> IF save[k] = None_ THEN save[k]
                                ELSE AddTags(save[k], scene_tags)
          [] OTHER -> save[k]]

\* line 185: SAVE["turn_tags"].append(t) raises AttributeError when turn_tags
\* is None (a null in the loaded document, which setdefault keeps) and a tag
\* is to be added; lines 164-180 have run by then
EndTurnRaises(save, scene_tags) ==
    Has(save, "turn_tags") /\ save["turn_tags"] = None_ /\ scene_tags # <<>>

\* the document end_turn leaves, returning or raising
end_turn(save, scene_ref, dialogue_lines, scene_tags, choice_taken, mode) ==
    LogTurn(AdvanceTurn(_ensure_lists(save), mode),
            scene_ref, dialogue_lines, scene_tags, choice_taken)

-----------------------------------------------------------------------------
(* Save store: write_save, load_latest_save_or_none *)

\* the size test left out
_nonempty_ExistsOnly(f) == Exists(f)

\* _nonempty(p): p.exists() and p.stat().st_size > 0
_nonempty(f) == Exists(f) /\ Len(f[2]) > 0

\* one snapshot file whatever the turn
SnapshotName_Latest(save) == "latest"

\* SAVES_DIR / f"snapshot-turn-{SAVE.get('turn','0')}.json"
SnapshotName(save) == Format(Get(save, "turn", StrV("0")))

\* Outcomes of the storage layer for one write_save call:
\*   ok             every write succeeds
\*   open_fails     p.open("w") raises: the canonical save keeps its content
\*   write_fails    f.write / fsync raises after open truncated the file
\*   snapshot_fails the canonical save is written, the snapshot open raises
\*   silent_empty   no error, yet the canonical save ends up empty (simulated)

\* lines 192-193: SAVE["flags"]["integrity"]["save_hash"] = compute_save_hash(SAVE)
RefreshHash(save) == SetSaveHash(save, compute_save_hash(save))

\* the blob goes to the snapshot and never to the canonical save
WriteBlob_SnapshotOnly(save, snapshot, sfile, snaps, io) ==
    [save |-> save, save_file |-> sfile,
     snapshots |-> Put(snaps, SnapshotName(save), File(<<DumpJson(save)>>)),
     raised |-> "none"]

\* lines 196-203, on the document whose digest has been refreshed
WriteBlob(save, snapshot, sfile, snaps, io) ==
    [save |-> save,
     save_file |->
        IF ~Serializable(save) \/ io = "open_fails" THEN sfile
        ELSE IF io \in {"write_fails", "silent_empty"} THEN File(<<>>)
        ELSE File(<<DumpJson(save)>>),
     snapshots |->
        IF Serializable(save) /\ snapshot /\ io \in {"ok", "silent_empty"}
        THEN Put(snaps, SnapshotName(save), File(<<DumpJson(save)>>))
        ELSE snaps,
     raised |->
        IF ~Serializable(save) THEN "TypeError"
        ELSE IF io \in {"open_fails", "write_fails"} \/ (snapshot /\ io = "snapshot_fails")
        THEN "OSError"
        ELSE "none"]

write_save(save, snapshot, sfile, snaps, io) ==
    WriteBlob(RefreshHash(EnsureIntegrity(save)), snapshot, sfile, snaps, io)

\* write_save_file: export_save (lines 72-80) refreshes the digest the same
\* way, then write_text stores the blob
write_save_file(save, snapshot, sfile, snaps, io) ==
    WriteBlob(RefreshHash(EnsureIntegrity(save)), snapshot, sfile, snaps, io)

\* load_latest_save_or_none(): None when the file is absent; json.loads
\* raises on an empty file
load_latest_save_or_none(sfile) ==
    IF ~Exists(sfile) THEN [raised |-> "none", value |-> None_]
    ELSE IF Len(sfile[2]) = 0 THEN [raised |-> "JSONDecodeError", value |-> None_]
    ELSE [raised |-> "none", value |-> LoadJson(sfile[2][1])]

-----------------------------------------------------------------------------
(* Journal store: append_journal *)

\* _now_iso(): some non-empty text
NowIso == StrV("2025-08-14T00:00:00Z")

\* lines 218-236
\* extra only filling the keys the built entry lacks
JournalEntry_BuiltWins(save, scene_ref, dialogue_lines, scene_tags, choices, choice_taken, extra) ==
    Update(extra,
           [turn                 |-> IntV(IntOf(Get(save, "turn", IntV(0))).n),
            timestamp            |-> NowIso,
            location             |-> Get(save, "loc", None_),
            time                 |-> Get(save, "time", None_),
            scene_ref            |-> Or(scene_ref, None_),
            scene_tags           |-> ListV(scene_tags),
            dialogue             |-> ListV(dialogue_lines),
            choices              |-> ListV(choices),
            choice_taken         |-> choice_taken,
            relationship_changes |-> ListV(<<>>),
            inventory_changes    |-> ListV(<<>>),
            money_change         |-> DictV(EmptyDict),
            hooks_added          |-> ListV(<<>>),
            flags_set            |-> ListV(<<>>),
            notes                |-> StrV(""),
            promises             |-> ListV(<<>>)])

\* lines 217-236
JournalEntry(save, scene_ref, dialogue_lines, scene_tags, choices, choice_taken, extra) ==
    Update([turn                 |-> IntV(IntOf(Get(save, "turn", IntV(0))).n),
            timestamp            |-> NowIso,
            location             |-> Get(save, "loc", None_),
            time                 |-> Get(save, "time", None_),
            scene_ref            |-> Or(scene_ref, None_),
            scene_tags           |-> ListV(scene_tags),
            dialogue             |-> ListV(dialogue_lines),
            choices              |-> ListV(choices),
            choice_taken         |-> choice_taken,
            relationship_changes |-> ListV(<<>>),
            inventory_changes    |-> ListV(<<>>),
            money_change         |-> DictV(EmptyDict),
            hooks_added          |-> ListV(<<>>),
            flags_set            |-> ListV(<<>>),
            notes                |-> StrV(""),
            promises             |-> ListV(<<>>)],
           extra)

\* only the presence of the key tested
MissingRequired_PresenceOnly(entry, root_required) ==
    SelectSeq(root_required, LAMBDA k : ~Has(entry, k))

\* line 246: [k for k in root_required if k not in entry or entry[k] in (None, "")]
MissingRequired(entry, root_required) ==
    SelectSeq(root_required, LAMBDA k : ~Has(entry, k) \/ InNoneOrEmpty(entry[k]))

\* lines 251-254
DialogueRequired(schema) ==
    Get(Get(Get(Get(schema, "properties", EmptyDict), "dialogue", EmptyDict),
            "items", EmptyDict),
        "required", <<>>)

\* the presence test without the None / "" test
LineLacks_PresenceOnly(line, dlg_req) ==
    \E i \in 1..Len(dlg_req) : ~Has(line, dlg_req[i])

\* line 258, for one dialogue line
LineLacks(line, dlg_req) ==
    \E i \in 1..Len(dlg_req) : ~Has(line, dlg_req[i]) \/ InNoneOrEmpty(line[dlg_req[i]])

\* lines 255-259: the (0-based) index of the first offending line, or -1
FirstBadLine(dialogue, dlg_req) ==
    IF dlg_req # <<>> /\ \E i \in 1..Len(dialogue) : LineLacks(dialogue[i], dlg_req)
    THEN (CHOOSE i \in 1..Len(dialogue) :
              /\ LineLacks(dialogue[i], dlg_req)
              /\ \A j \in 1..(i - 1) : ~LineLacks(dialogue[j], dlg_req)) - 1
    ELSE -1

\* lines 257-259: the first key of dlg_req the line lacks, and the message
FirstLackedKey(line, dlg_req) ==
    dlg_req[CHOOSE i \in 1..Len(dlg_req) :
                /\ ~Has(line, dlg_req[i]) \/ InNoneOrEmpty(line[dlg_req[i]])
                /\ \A j \in 1..(i - 1) :
                      Has(line, dlg_req[j]) /\ ~InNoneOrEmpty(line[dlg_req[j]])]

DialogueLineError(dialogue, dlg_req, i) ==
    "Journal dialogue line " \o ToString(i) \o " missing '"
        \o FirstLackedKey(dialogue[i + 1], dlg_req) \o "' per schema"

\* json.dumps(entry, ensure_ascii=False): one line, newlines escaped
DumpLine(entry) == <<"#json-line", entry>>

\* Outcomes of the storage layer for one append: ok, open_fails (jpath.open("a")
\* raises, nothing written), silent_empty (no error, yet the journal ends up
\* empty: simulated)
\* entry.get("dialogue") or []
EntryDialogue(entry) ==
    IF Has(entry, "dialogue") /\ entry["dialogue"][1] = "#list"
    THEN entry["dialogue"][2] ELSE <<>>

\* lines 238-259: the exception the validation of the built entry raises
ValidateEntry(entry, schema_file) ==
    IF schema_file = Missing
    THEN [raised |-> "RuntimeError", cause |-> "Journal schema missing"]
    ELSE IF schema_file = Garbage
    THEN [raised |-> "JSONDecodeError", cause |-> "journal schema"]
    ELSE IF MissingRequired(entry, Get(schema_file[2], "required", <<>>)) # <<>>
    THEN [raised |-> "RuntimeError",
          cause |-> "Journal entry missing required fields per schema"]
    ELSE IF FirstBadLine(EntryDialogue(entry), DialogueRequired(schema_file[2])) >= 0
    THEN [raised |-> "RuntimeError",
          cause |-> DialogueLineError(EntryDialogue(entry), DialogueRequired(schema_file[2]),
                                      FirstBadLine(EntryDialogue(entry),
                                                   DialogueRequired(schema_file[2])))]
    ELSE [raised |-> "none", cause |-> ""]

\* the journal opened with "w" instead of "a"
WriteLine_Truncates(entry, checked, jfile, io) ==
    IF checked.raised # "none" THEN [journal_file |-> jfile] @@ checked
    ELSE IF io = "open_fails"
    THEN [journal_file |-> jfile, raised |-> "OSError", cause |-> "journal open"]
    ELSE [journal_file |-> File(<<DumpLine(entry)>>), raised |-> "none", cause |-> ""]

\* lines 261-265
WriteLine(entry, checked, jfile, io) ==
    IF checked.raised # "none" THEN [journal_file |-> jfile] @@ checked
    ELSE IF io = "open_fails"
    THEN [journal_file |-> jfile, raised |-> "OSError", cause |-> "journal open"]
    ELSE IF io = "silent_empty"
    THEN [journal_file |-> File(<<>>), raised |-> "none", cause |-> ""]
    ELSE [journal_file |-> File(Append(IF Exists(jfile) THEN jfile[2] ELSE <<>>,
                                       DumpLine(entry))),
          raised |-> "none", cause |-> ""]

append_journal(save, scene_ref, dialogue_lines, scene_tags, choices, choice_taken, extra, schema_file, jfile, io) ==
    IF ~IntOf(Get(save, "turn", IntV(0))).ok
    THEN [journal_file |-> jfile, raised |-> "ValueError", cause |-> "int(turn)"]
    ELSE WriteLine(JournalEntry(save, scene_ref, dialogue_lines, scene_tags, choices,
                                choice_taken, extra),
                   ValidateEntry(JournalEntry(save, scene_ref, dialogue_lines, scene_tags,
                                              choices, choice_taken, extra),
                                 schema_file),
                   jfile, io)

-----------------------------------------------------------------------------
(* Footer and the engine glue: compose_footer, persist_turn_and_footer *)

NotWritten == "**Save/Journal not written**"

\* FILES_BASE_URL is unset: both links are sandbox: links
compose_footer(sfile, jfile) ==
    LET save_ok == _nonempty(sfile)
        j_ok == _nonempty(jfile)
        lines == <<"Download: sandbox:/mnt/data/save.json",
                   "Download Journal: sandbox:/mnt/data/saves/journal.ndjson">>
    IN IF ~(save_ok /\ j_ok) THEN Append(lines, NotWritten) ELSE lines

\* The result of one call: the caller's document and the storage after it, the
\* exception that reached the caller ("none": the footer was returned), the
\* step that raised and its original exception.
\* an exception of append_journal swallowed
Surface_IgnoresJournal(w, j, footer) ==
    [save |-> w.save, save_file |-> w.save_file, snapshots |-> w.snapshots,
     journal_file |-> j.journal_file] @@
    (IF w.raised # "none"
     THEN [raised |-> "RuntimeError", message |-> "PERSISTENCE_FAILED",
           step |-> "write_save", cause |-> w.raised, footer |-> <<>>]
     ELSE IF NotWritten \in Range(footer)
     THEN [raised |-> "AssertionError",
           message |-> "PERSISTENCE_FAILED: files missing/empty after write",
           step |-> "compose_footer", cause |-> "none", footer |-> <<>>]
     ELSE [raised |-> "none", message |-> "", step |-> "", cause |-> "none",
           footer |-> footer])

\* lines 321-325, given the outcomes w of write_save and j of append_journal
\* (j is the journal untouched when write_save raised)
Surface(w, j, footer) ==
    [save |-> w.save, save_file |-> w.save_file, snapshots |-> w.snapshots,
     journal_file |-> j.journal_file] @@
    (IF w.raised # "none"
     THEN [raised |-> "RuntimeError", message |-> "PERSISTENCE_FAILED",
           step |-> "write_save", cause |-> w.raised, footer |-> <<>>]
     ELSE IF j.raised # "none"
     THEN [raised |-> "RuntimeError", message |-> "PERSISTENCE_FAILED",
           step |-> "append_journal", cause |-> j.raised, footer |-> <<>>]
     ELSE IF NotWritten \in Range(footer)
     THEN [raised |-> "AssertionError",
           message |-> "PERSISTENCE_FAILED: files missing/empty after write",
           step |-> "compose_footer", cause |-> "none", footer |-> <<>>]
     ELSE [raised |-> "none", message |-> "", step |-> "", cause |-> "none",
           footer |-> footer])

\* line 320 and on, given the outcome w of write_save
AfterWrite(w, j) == Surface(w, j, compose_footer(w.save_file, j.journal_file))

\* line 320: append_journal runs only when write_save returned
JournalStep(w, scene_ref, dialogue_lines, scene_tags, choices, choice_taken, schema_file, jfile, io) ==
    AfterWrite(w,
               IF w.raised # "none"
               THEN [journal_file |-> jfile, raised |-> "none", cause |-> ""]
               ELSE append_journal(w.save, scene_ref, dialogue_lines, scene_tags, choices,
                                   choice_taken, EmptyDict, schema_file, jfile, io))

\* the exception of end_turn let through as it is
BookkeepingFailed_Unwrapped(save, sfile, snaps, jfile) ==
    [save |-> save, save_file |-> sfile, snapshots |-> snaps, journal_file |-> jfile,
     raised |-> "AttributeError", message |-> "", step |-> "end_turn",
     cause |-> "none", footer |-> <<>>]

\* lines 318 and 321-322: end_turn is called inside the try, so its exception
\* is re-raised like those of the two writes
BookkeepingFailed(save, sfile, snaps, jfile) ==
    [save |-> save, save_file |-> sfile, snapshots |-> snaps, journal_file |-> jfile,
     raised |-> "RuntimeError", message |-> "PERSISTENCE_FAILED", step |-> "end_turn",
     cause |-> "AttributeError", footer |-> <<>>]

\* the document and the storage put back as they were when the journal
\* append raises
RolledBack(r, save, sfile, snaps) ==
    IF r.step = "append_journal"
    THEN [r EXCEPT !.save = save, !.save_file = sfile, !.snapshots = snaps]
    ELSE r

persist_turn_and_footer_Transactional(save, scene_ref, dialogue_lines, scene_tags, choices, choice_taken, mode, sfile, snaps, jfile, schema_file, io) ==
    RolledBack(JournalStep(write_save(end_turn(save, scene_ref, dialogue_lines, scene_tags,
                                               choice_taken, mode),
                                      TRUE, sfile, snaps, io.save),
                           scene_ref, dialogue_lines, scene_tags, choices, choice_taken,
                           schema_file, jfile, io.journal),
               save, sfile, snaps)

persist_turn_and_footer(save, scene_ref, dialogue_lines, scene_tags, choices, choice_taken, mode, sfile, snaps, jfile, schema_file, io) ==
    IF EndTurnRaises(save, scene_tags)
    THEN BookkeepingFailed(end_turn(save, scene_ref, dialogue_lines, scene_tags,
                                    choice_taken, mode),
                           sfile, snaps, jfile)
    ELSE
    JournalStep(write_save(end_turn(save, scene_ref, dialogue_lines, scene_tags,
                                    choice_taken, mode),
                           TRUE, sfile, snaps, io.save),
                scene_ref, dialogue_lines, scene_tags, choices, choice_taken,
                schema_file, jfile, io.journal)

-----------------------------------------------------------------------------
(* Schema validator: basic_validate *)

\* the characters of a str, for the strs of at most one character that the
\* modelled schemas hold where a list is expected
Chars(s) == IF s = "" THEN <<>> ELSE <<s>>

\* for key in required: a list yields its items, a str its characters, and
\* None or an int is not iterable
Iterate(v) ==
    IF v[1] = "#list" THEN [ok |-> TRUE, items |-> v[2]]
    ELSE IF v[1] = "#str" THEN [ok |-> TRUE, items |-> Chars(v[2])]
    ELSE [ok |-> FALSE, items |-> <<>>]

\* lines 51-53: one issue per item that is not a key of the document
MissingIssues_Deduplicated(save, required) ==
    LET absent == {k \in Range(required) : ~Has(save, k)}
        first == SelectSeq([i \in 1..Len(required) |-> <<i, required[i]>>],
                           LAMBDA p : p[2] \in absent
                                      /\ \A j \in 1..(p[1] - 1) : required[j] # p[2])
    IN [i \in 1..Len(first) |-> "missing:" \o first[i][2]]

MissingIssues_Unordered(save, required) ==
    LET absent == SelectSeq(required, LAMBDA k : ~Has(save, k))
    IN [i \in 1..Len(absent) |-> "missing:" \o absent[Len(absent) + 1 - i]]

MissingIssues(save, required) ==
    LET absent == SelectSeq(required, LAMBDA k : ~Has(save, k))
    IN [i \in 1..Len(absent) |-> "missing:" \o absent[i]]

\* lines 49-50 raise: not JSON, or no schema / top_level_order key
Unreadable(schema_file) ==
    \/ schema_file = Garbage
    \/ ~Has(schema_file[2], "schema")
    \/ ~Has(schema_file[2]["schema"], "top_level_order")

basic_validate(save, schema_file) ==
    IF schema_file = Missing
    THEN [raised |-> "RuntimeError", message |-> "Save schema missing", issues |-> <<>>]
    ELSE IF Unreadable(schema_file)
            \/ ~Iterate(schema_file[2]["schema"]["top_level_order"]).ok
    THEN [raised |-> "RuntimeError", message |-> "Save schema invalid or unreadable",
          issues |-> <<>>]
    ELSE [raised |-> "none", message |-> "",
          issues |-> MissingIssues(save,
                                   Iterate(schema_file[2]["schema"]["top_level_order"]).items)]

-----------------------------------------------------------------------------
(* Merge engine: import_save_merge *)

MergeDialogueCap == 10
MergeTurnLogCap == 50

\* lines 91-93 (the argument is always a list here)
_concat_trim(log, cap) == IF Len(log) > cap THEN SubSeq(log, Len(log) - cap + 1, Len(log)) ELSE log

\* line 109: (current.get(k) or []) + (incoming.get(k) or [])
ConcatLogs(incoming, current, k) == Get(current, k, <<>>) \o Get(incoming, k, <<>>)

\* lines 99-102 with every key of incoming copied, gaps or not
FillGaps_Overwrites(incoming, current) == Update(current, incoming)

\* lines 99-102: dict(current), then the keys only incoming has
FillGaps(incoming, current) == Update(incoming, current)

\* lines 105-110 without the two log keys being rebuilt
MergeEqual_NoConcat(incoming, current) == Update(current, incoming)

\* incoming's entries put before current's
MergeEqual_IncomingFirst(incoming, current) ==
    Put(Put(Update(current, incoming),
            "dialogue_log",
            _concat_trim(ConcatLogs(current, incoming, "dialogue_log"), MergeDialogueCap)),
        "turn_log", _concat_trim(ConcatLogs(current, incoming, "turn_log"), MergeTurnLogCap))

\* lines 105-110
MergeEqual(incoming, current) ==
    Put(Put(Update(current, incoming),
            "dialogue_log",
            _concat_trim(ConcatLogs(incoming, current, "dialogue_log"), MergeDialogueCap)),
        "turn_log", _concat_trim(ConcatLogs(incoming, current, "turn_log"), MergeTurnLogCap))

\* the newer turn decides for current even when incoming is ahead
MergeByTurn_CurrentWins(incoming, current, turn_in, turn_cur) ==
    IF turn_in = turn_cur THEN MergeEqual(incoming, current) ELSE FillGaps(incoming, current)

\* the incoming document taken unless the turns are equal
MergeByTurn_IncomingWins(incoming, current, turn_in, turn_cur) ==
    IF turn_in = turn_cur THEN MergeEqual(incoming, current) ELSE incoming

\* lines 95-110: the merged document before its digest is refreshed
MergeByTurn(incoming, current, turn_in, turn_cur) ==
    IF turn_in > turn_cur THEN incoming
    ELSE IF turn_in < turn_cur THEN FillGaps(incoming, current)
    ELSE MergeEqual(incoming, current)

\* lines 97, 103, 111
MergeWarning(turn_in, turn_cur) ==
    IF turn_in > turn_cur
    THEN "info:incoming_newer:" \o ToString(turn_in) \o ">" \o ToString(turn_cur)
    ELSE IF turn_in < turn_cur
    THEN "info:current_newer:" \o ToString(turn_cur) \o ">" \o ToString(turn_in)
    ELSE "info:merged_equal_turn"

\* merged["flags"] is the very dict current["flags"] names: merged is a
\* shallow copy of current whose flags entry incoming did not replace
SharesFlags(incoming, current, turn_in, turn_cur) ==
    /\ Has(current, "flags")
    /\ \/ turn_in < turn_cur
       \/ turn_in = turn_cur /\ ~Has(incoming, "flags")

\* lines 113-118 on the merged document; the digest written through a shared
\* flags dict shows in the caller's current document as well
HashMerged(merged, current, shared, warnings) ==
    [raised |-> "none", value |-> merged, warnings |-> warnings,
     current |-> IF shared THEN Put(current, "flags", merged["flags"]) ELSE current]

\* lines 88-118, both documents validated
MergeTurns(incoming, current, turn_in, turn_cur, issues) ==
    IF ~turn_in.ok \/ ~turn_cur.ok   \* int() raises ValueError (TypeError on None)
    THEN [raised |-> "ValueError", value |-> EmptyDict, warnings |-> <<>>, current |-> current]
    ELSE HashMerged(RefreshHash(EnsureIntegrity(MergeByTurn(incoming, current,
                                                            turn_in.n, turn_cur.n))),
                    current,
                    SharesFlags(incoming, current, turn_in.n, turn_cur.n),
                    Append(issues, MergeWarning(turn_in.n, turn_cur.n)))

\* a document with a presence issue is refused
ValidateBoth_RefusesIncomplete(incoming, current, v_in, v_cur) ==
    [raised |-> IF v_in.issues \o v_cur.issues = <<>> THEN "none" ELSE "RuntimeError",
     value |-> EmptyDict, warnings |-> v_in.issues \o v_cur.issues, current |-> current]

\* lines 85-86
ValidateBoth(incoming, current, v_in, v_cur) ==
    IF v_in.raised # "none" \/ v_cur.raised # "none"
    THEN [raised |-> "RuntimeError", value |-> EmptyDict, warnings |-> <<>>,
          current |-> current]
    ELSE MergeTurns(incoming, current,
                    IntOf(Get(incoming, "turn", IntV(0))),
                    IntOf(Get(current, "turn", IntV(0))),
                    v_in.issues \o v_cur.issues)

\* import_save_merge(path, current), pfile the file at path
import_save_merge(pfile, current, schema_file) ==
    IF ~Exists(pfile)
    THEN [raised |-> "FileNotFoundError", value |-> EmptyDict, warnings |-> <<>>,
          current |-> current]
    ELSE IF Len(pfile[2]) = 0
    THEN [raised |-> "JSONDecodeError", value |-> EmptyDict, warnings |-> <<>>,
          current |-> current]
    ELSE ValidateBoth(LoadJson(pfile[2][1]), current,
                      basic_validate(LoadJson(pfile[2][1]), schema_file),
                      basic_validate(current, schema_file))

-----------------------------------------------------------------------------
(* Calls.  Each action is one call made by the single caller that owns SAVE; *)
(* ret, pre and hist record what the caller and an observer of the storage  *)
(* can see of it.                                                           *)

Call(op, mode, scene_ref, dialogue_lines, scene_tags, choice_taken) ==
    [op |-> op, mode |-> mode, scene_ref |-> scene_ref, lines |-> dialogue_lines,
     tags |-> scene_tags, choice |-> choice_taken]

JournalLines(jfile) == IF Exists(jfile) THEN jfile[2] ELSE <<>>

Recorded(call, raised, result) ==
    /\ ret' = call @@ result @@ [raised |-> raised]
    /\ pre' = [init |-> pre.init, SAVE |-> SAVE, save_file |-> save_file,
               snapshots |-> snapshots, journal_file |-> journal_file]
    /\ hist' = Append(hist, call @@ [raised |-> raised,
                                     turn |-> Get(SAVE', "turn", IntV(0))])

Record(call, raised, result) == Recorded(call, raised, result) /\ UNCHANGED callers

EndTurn(scene_ref, dialogue_lines, scene_tags, choice_taken, mode) ==
    /\ SAVE' = end_turn(SAVE, scene_ref, dialogue_lines, scene_tags, choice_taken, mode)
    /\ UNCHANGED <<save_file, snapshots, journal_file, journal_schema, save_schema, import_file>>
    /\ Record(Call("end_turn", mode, scene_ref, dialogue_lines, scene_tags, choice_taken),
              IF EndTurnRaises(SAVE, scene_tags) THEN "AttributeError" ELSE "none",
              [value |-> <<>>])

\* The caller's document object is mutated in place, so it holds what the call
\* made of it however the call ends.
Persisted(r, call, io) ==
    /\ SAVE' = r.save
    /\ save_file' = r.save_file
    /\ snapshots' = r.snapshots
    /\ journal_file' = r.journal_file
    /\ UNCHANGED <<journal_schema, save_schema, import_file, save_schema, import_file>>
    /\ Record(call, r.raised,
              [value |-> r.footer, message |-> r.message, step |-> r.step,
               cause |-> r.cause, io |-> io])

PersistTurn(scene_ref, dialogue_lines, scene_tags, choices, choice_taken, mode, io) ==
    Persisted(persist_turn_and_footer(SAVE, scene_ref, dialogue_lines, scene_tags, choices,
                                      choice_taken, mode, save_file, snapshots,
                                      journal_file, journal_schema, io),
              Call("persist_turn_and_footer", mode, scene_ref, dialogue_lines,
                   scene_tags, choice_taken),
              io)

\* a direct call of append_journal; it reads SAVE and never writes it
Appended(r, call, extra, choices, io) ==
    /\ journal_file' = r.journal_file
    /\ UNCHANGED <<SAVE, save_file, snapshots, journal_schema, save_schema, import_file>>
    /\ Record(call, r.raised,
              [value |-> <<>>, cause |-> r.cause, extra |-> extra, choices |-> choices,
               io |-> io])

AppendJournal(scene_ref, dialogue_lines, scene_tags, choices, choice_taken, extra, io) ==
    Appended(append_journal(SAVE, scene_ref, dialogue_lines, scene_tags, choices,
                            choice_taken, extra, journal_schema, journal_file, io),
             Call("append_journal", "", scene_ref, dialogue_lines, scene_tags, choice_taken),
             extra, choices, io)

Written(r, op, snapshot, io) ==
    /\ SAVE' = r.save
    /\ save_file' = r.save_file
    /\ snapshots' = r.snapshots
    /\ UNCHANGED <<journal_file, journal_schema, save_schema, import_file>>
    /\ Record([op |-> op, mode |-> "", snapshot |-> snapshot, io |-> io], r.raised,
              [value |-> <<>>])

WriteSave(snapshot, io) ==
    Written(write_save(SAVE, snapshot, save_file, snapshots, io), "write_save", snapshot, io)

WriteSaveFile(snapshot, io) ==
    Written(write_save_file(SAVE, snapshot, save_file, snapshots, io), "write_save_file",
            snapshot, io)

Loaded(r) ==
    /\ UNCHANGED <<SAVE, save_file, snapshots, journal_file, journal_schema, save_schema, import_file>>
    /\ Record([op |-> "load_latest_save_or_none", mode |-> ""], r.raised,
              [value |-> r.value])

LoadLatest == Loaded(load_latest_save_or_none(save_file))

ComputeHash ==
    /\ SAVE' = DocumentAfterHash(SAVE, CloneForHash(SAVE))
    /\ UNCHANGED <<save_file, snapshots, journal_file, journal_schema, save_schema, import_file>>
    /\ Record([op |-> "compute_save_hash", mode |-> ""], "none",
              [value |-> compute_save_hash(SAVE)])

\* import_save_merge(path, SAVE): the caller's current document is read, and
\* written only through the flags dict it may share with the merged document
Imported(r) ==
    /\ SAVE' = r.current
    /\ UNCHANGED <<save_file, snapshots, journal_file, journal_schema, save_schema, import_file>>
    /\ Record([op |-> "import_save_merge", mode |-> ""], r.raised,
              [value |-> r.value, warnings |-> r.warnings])

ImportSaveMerge == Imported(import_save_merge(import_file, SAVE, save_schema))

Validated(r) ==
    /\ UNCHANGED <<SAVE, save_file, snapshots, journal_file, journal_schema, save_schema, import_file>>
    /\ Record([op |-> "basic_validate", mode |-> ""], r.raised,
              [value |-> r.issues, message |-> r.message])

BasicValidate == Validated(basic_validate(SAVE, save_schema))

\* The caller edits the digest field of its document, and nothing else:
\* SAVE["flags"]["integrity"]["save_hash"] = digest, or del of that key
SetDigest(digest) ==
    /\ Has(SAVE, "flags") /\ Has(SAVE["flags"], "integrity")
    /\ SAVE' = SetSaveHash(SAVE, digest)
    /\ SAVE' # SAVE
    /\ UNCHANGED <<save_file, snapshots, journal_file, journal_schema, save_schema, import_file, ret, pre, hist, callers>>

DelDigest ==
    /\ Has(SAVE, "flags") /\ Has(SAVE["flags"], "integrity")
    /\ Has(SAVE["flags"]["integrity"], "save_hash")
    /\ SAVE' = Put(SAVE, "flags",
                   Put(SAVE["flags"], "integrity",
                       [k \in (DOMAIN SAVE["flags"]["integrity"]) \ {"save_hash"} |->
                           SAVE["flags"]["integrity"][k]]))
    /\ UNCHANGED <<save_file, snapshots, journal_file, journal_schema, save_schema, import_file, ret, pre, hist, callers>>

\* A save schema in the shape basic_validate reads: schema.top_level_order
SaveSchema(top_level_order) == File([schema |-> [top_level_order |-> top_level_order]])

BasicSaveSchema == SaveSchema(ListV(<<"turn", "loc", "time", "flags", "dialogue_log">>))

InitWith(save, schema_file) ==
    /\ SAVE = save
    /\ save_schema = BasicSaveSchema
    /\ import_file = Missing
    /\ save_file = Missing
    /\ snapshots = EmptyDict
    /\ journal_file = Missing
    /\ journal_schema = schema_file
    /\ ret = [op |-> "none", raised |-> "none"]
    /\ pre = [init |-> save, SAVE |-> save, save_file |-> Missing,
              snapshots |-> EmptyDict, journal_file |-> Missing]
    /\ hist = <<>>
    /\ callers = <<>>

\* A journal schema in the shape append_journal reads: root "required" and
\* properties.dialogue.items.required
Schema(required, dlg_required) ==
    File([required |-> required,
          properties |-> [dialogue |-> [items |-> [required |-> dlg_required]]]])

BasicSchema == Schema(<<"turn", "timestamp">>, <<"speaker", "text">>)

Narration == <<[speaker |-> StrV("Narrator"), text |-> StrV("Once")]>>

IoOk == [save |-> "ok", journal |-> "ok"]

-----------------------------------------------------------------------------
(* SpecTurn: the turn counter, from every kind of starting value *)

MaxTurnCalls == 3

Modes == {"GM", "IC", "ic"}

TurnValues == {IntV(0), IntV(3), IntV(-2), StrV("7"), StrV("abc"), None_}

NewGame == [loc |-> StrV("Ba Sing Se"), time |-> StrV("dawn")]

TurnSaves == {NewGame} \cup {Put(NewGame, "turn", t) : t \in TurnValues}

TurnIo == {IoOk, [save |-> "open_fails", journal |-> "ok"],
           [save |-> "ok", journal |-> "open_fails"]}

InitTurn == \E save \in TurnSaves, schema_file \in {Missing, BasicSchema} :
                InitWith(save, schema_file)

TurnEndTurn ==
    /\ Len(hist) < MaxTurnCalls
    /\ \E mode \in Modes : EndTurn(StrV("scene:1"), Narration, <<"A">>, None_, mode)

TurnPersist ==
    /\ Len(hist) < MaxTurnCalls
    /\ \E mode \in Modes, io \in TurnIo :
          PersistTurn(StrV("scene:1"), Narration, <<"A">>, <<"go">>, None_, mode, io)

NextTurn == TurnEndTurn \/ TurnPersist

SpecTurn == InitTurn /\ [][NextTurn]_vars

TurnCalls == {"end_turn", "persist_turn_and_footer"}

\* the in-character mode, in either spelling the callers use
InCharacter(mode) == mode \in {"IC", "ic"}

NonICCalls == Cardinality({i \in 1..Len(hist) : ~InCharacter(hist[i].mode)})

\* C1: a call of end_turn / persist_turn_and_footer on a save whose turn is the
\* integer t leaves turn = t + 1 when the mode is not IC and turn = t when it
\* is; from a new game at turn 0, turn equals the number of non-IC calls made.
C1_TurnAdvance ==
    /\ (ret.op \in TurnCalls /\ Has(pre.SAVE, "turn") /\ IsInt(pre.SAVE["turn"]))
          => SAVE["turn"] = IntV(pre.SAVE["turn"][2]
                                 + (IF InCharacter(ret.mode) THEN 0 ELSE 1))
    /\ (Has(pre.init, "turn") /\ pre.init["turn"] = IntV(0))
          => SAVE["turn"] = IntV(NonICCalls)

C1_Witness ==
    /\ ret.op = "persist_turn_and_footer"
    /\ Get(pre.init, "turn", None_) = IntV(0)
    /\ Len(hist) = 3
    /\ NonICCalls = 2
    /\ Get(SAVE, "turn", None_) = IntV(2)

TurnReading(save) == IntOf(Get(save, "turn", IntV(0)))

\* C2: no call of end_turn / persist_turn_and_footer decrements the turn
\* counter, whatever the turn field held before: a counter that reads as a
\* number (absent reads as 0) reads as a number at least as large after the
\* call, and every non-IC call leaves an integer.
C2_TurnNeverDecremented ==
    ret.op \in TurnCalls =>
        /\ TurnReading(pre.SAVE).ok =>
              /\ TurnReading(SAVE).ok
              /\ TurnReading(SAVE).n >= TurnReading(pre.SAVE).n
        /\ ~InCharacter(ret.mode) => (Has(SAVE, "turn") /\ IsInt(SAVE["turn"]))

C2_Witness ==
    /\ Len(hist) = 3
    /\ Get(pre.init, "turn", None_) = StrV("7")
    /\ Get(pre.SAVE, "turn", None_) = IntV(8)
    /\ Get(SAVE, "turn", None_) = IntV(9)

-----------------------------------------------------------------------------
(* SpecLog: the rolling dialogue log over more calls than its cap *)

MaxLogCalls == 12

\* a continued game: a loaded save that already holds two log entries
Continued ==
    [turn |-> IntV(2),
     dialogue_log |-> <<[turn |-> IntV(1), scene |-> StrV("scene:a"), lines |-> <<>>,
                         choice |-> None_, tags |-> <<>>],
                        [turn |-> IntV(2), scene |-> StrV("scene:b"), lines |-> <<>>,
                         choice |-> IntV(1), tags |-> <<>>]>>,
     turn_log |-> <<[turn |-> IntV(1), ref |-> StrV("scene:a")],
                    [turn |-> IntV(2), ref |-> StrV("scene:b")]>>,
     turn_tags |-> <<>>,
     flags |-> [integrity |-> [save_hash |-> StrV("")]]]

InitLog == \E save \in {Put(NewGame, "turn", IntV(0)), Continued} :
               InitWith(save, BasicSchema)

LogEndTurnGM ==
    /\ Len(hist) < MaxLogCalls
    /\ EndTurn(StrV("scene:1"), Narration, <<>>, None_, "GM")

LogEndTurnIC ==
    /\ Len(hist) < MaxLogCalls
    /\ EndTurn(None_, <<>>, <<>>, IntV(2), "IC")

NextLog == LogEndTurnGM \/ LogEndTurnIC

SpecLog == InitLog /\ [][NextLog]_vars

\* the dialogue_log entry of one recorded call
CallEntry(h) ==
    [turn |-> h.turn, scene |-> IF h.scene_ref = None_ THEN StrV("") ELSE h.scene_ref,
     lines |-> h.lines, choice |-> h.choice, tags |-> h.tags]

CallEntries == [i \in 1..Len(hist) |-> CallEntry(hist[i])]

\* C3: after every end_turn call the dialogue_log holds at most 10 entries:
\* the newest 10 of the entries it started with followed by one entry per
\* call, in call order; after more than 10 calls these are exactly the
\* entries of the 10 most recent calls.
C3_DialogueLogBound ==
    ret.op \in TurnCalls =>
        /\ Len(SAVE["dialogue_log"]) <= 10
        /\ SAVE["dialogue_log"] = Last(Get(pre.init, "dialogue_log", <<>>) \o CallEntries, 10)
        /\ Len(hist) > 10 =>
              SAVE["dialogue_log"] = [i \in 1..10 |-> CallEntry(hist[Len(hist) - 10 + i])]

C3_Witness ==
    /\ Len(hist) = 12
    /\ Len(SAVE["dialogue_log"]) = 10
    /\ SAVE["dialogue_log"][1] = CallEntry(hist[3])
    /\ SAVE["dialogue_log"][1] # SAVE["dialogue_log"][10]

-----------------------------------------------------------------------------
(* SpecTags: the accumulated tag set *)

MaxTagCalls == 3

TagLists == {<<>>, <<"A", "B">>, <<"B", "C">>, <<"C", "A", "C">>, <<"D">>}

InitTags == \E save \in {Put(NewGame, "turn", IntV(0)),
                         Put(Put(NewGame, "turn", IntV(0)), "turn_tags", <<>>)} :
                InitWith(save, BasicSchema)

TagsEndTurn ==
    /\ Len(hist) < MaxTagCalls
    /\ \E mode \in {"GM", "IC"}, tags \in TagLists :
          EndTurn(StrV("scene:1"), Narration, tags, None_, mode)

TagsPersist ==
    /\ Len(hist) < MaxTagCalls
    /\ \E tags \in TagLists :
          PersistTurn(StrV("scene:1"), Narration, tags, <<"go">>, None_, "GM", IoOk)

NextTags == TagsEndTurn \/ TagsPersist

SpecTags == InitTags /\ [][NextTags]_vars

RECURSIVE Flatten(_)
Flatten(seqs) == IF seqs = <<>> THEN <<>> ELSE Head(seqs) \o Flatten(Tail(seqs))

\* every scene_tags list passed so far, in call order
TagsPassed == Flatten([i \in 1..Len(hist) |-> hist[i].tags])

FirstAt(s, t) == CHOOSE i \in 1..Len(s) : s[i] = t /\ \A j \in 1..(i - 1) : s[j] # t

\* C4: starting from an empty turn_tags, after any sequence of end_turn calls
\* turn_tags holds every tag passed in any call's scene_tags, each exactly
\* once, ordered by first appearance; a call only appends to turn_tags.
C4_TagDedup ==
    ret.op \in TurnCalls =>
        LET tags == SAVE["turn_tags"]
        IN /\ Range(tags) = Range(TagsPassed)
           /\ \A i, j \in 1..Len(tags) : i # j => tags[i] # tags[j]
           /\ \A i, j \in 1..Len(tags) :
                 i < j => FirstAt(TagsPassed, tags[i]) < FirstAt(TagsPassed, tags[j])
           /\ IsPrefix(Get(pre.SAVE, "turn_tags", <<>>), tags)

C4_Witness ==
    /\ Len(hist) = 2
    /\ hist[1].tags = <<"A", "B">>
    /\ hist[2].tags = <<"B", "C">>
    /\ SAVE["turn_tags"] = <<"A", "B", "C">>

-----------------------------------------------------------------------------
(* Spec: the turn pipeline against a storage layer that may refuse a write. *)
(* SpecSim adds the simulated storage that loses content without an error.  *)

MaxCalls == 3

NotesSchema == Schema(<<"turn", "notes">>, <<>>)

InitSaves == {Put(NewGame, "turn", IntV(0)), Continued}

InitSchemas == {Missing, BasicSchema, NotesSchema}

RaisingIo == {IoOk,
              [save |-> "open_fails", journal |-> "ok"],
              [save |-> "write_fails", journal |-> "ok"],
              [save |-> "snapshot_fails", journal |-> "ok"],
              [save |-> "ok", journal |-> "open_fails"]}

SilentIo == {[save |-> "silent_empty", journal |-> "ok"],
             [save |-> "ok", journal |-> "silent_empty"]}

Init == \E save \in InitSaves, schema_file \in InitSchemas : InitWith(save, schema_file)

Persist ==
    /\ Len(hist) < MaxCalls
    /\ \E mode \in {"GM", "IC"}, io \in RaisingIo :
          PersistTurn(StrV("scene:1"), Narration, <<"A">>, <<"go">>, None_, mode, io)

Journal ==
    /\ Len(hist) < MaxCalls
    /\ \E extra \in {EmptyDict, [notes |-> StrV("kept")]}, io \in {"ok", "open_fails"} :
          AppendJournal(StrV("scene:1"), Narration, <<"A">>, <<"go">>, None_, extra, io)

Next == Persist \/ Journal

Spec == Init /\ [][Next]_vars

PersistSilent ==
    /\ Len(hist) < MaxCalls
    /\ \E mode \in {"GM", "IC"}, io \in SilentIo :
          PersistTurn(StrV("scene:1"), Narration, <<"A">>, <<"go">>, None_, mode, io)

NextSim == Persist \/ Journal \/ PersistSilent

SpecSim == Init /\ [][NextSim]_vars

LastOf(seq) == seq[Len(seq)]

\* a file that is on storage with some content
Stored(f) == f # Missing /\ f # File(<<>>)

\* C5: when persist_turn_and_footer returns normally (a footer is handed to
\* the caller), the canonical save on storage is the document of this turn
\* (its turn number, its updated logs) and the last journal record is the
\* record of this same turn, appended by this call.
C5_ReturnsOnlyWhenPersisted ==
    (ret.op = "persist_turn_and_footer" /\ ret.raised = "none") =>
        /\ ret.value # <<>>
        /\ Stored(save_file)
        /\ LoadJson(save_file[2][1]) = SAVE
        /\ SAVE["turn"] = LastOf(hist).turn
        /\ LastOf(SAVE["dialogue_log"]) = CallEntry(LastOf(hist))
        /\ LastOf(SAVE["turn_log"]) = [turn |-> LastOf(hist).turn, ref |-> ret.scene_ref]
        /\ Len(JournalLines(journal_file)) = Len(JournalLines(pre.journal_file)) + 1
        /\ LastOf(JournalLines(journal_file))[2]["turn"] = SAVE["turn"]
        /\ LastOf(JournalLines(journal_file))[2]["scene_ref"] = ret.scene_ref

C5_Witness ==
    /\ ret.op = "persist_turn_and_footer"
    /\ ret.raised = "none"
    /\ Len(hist) = 3
    /\ hist[2].op = "persist_turn_and_footer"
    /\ hist[2].raised = "RuntimeError"
    /\ Len(JournalLines(journal_file)) = 2

\* C6: if after a persist_turn_and_footer call the save or the journal is
\* missing or empty on storage, the call has failed and returned no footer,
\* whatever the in-memory save holds.
C6_PostConditionGuard ==
    (ret.op = "persist_turn_and_footer" /\ ~(Stored(save_file) /\ Stored(journal_file)))
        => (ret.raised # "none" /\ ret.value = <<>>)

C6_Witness ==
    /\ ret.op = "persist_turn_and_footer"
    /\ ret.io.save = "silent_empty"
    /\ ret.step = "compose_footer"
    /\ ret.raised = "AssertionError"
    /\ save_file = File(<<>>)
    /\ Stored(journal_file)
    /\ Len(SAVE["dialogue_log"]) > 0

\* C8: the journal is append-only: a call of append_journal or
\* persist_turn_and_footer, failing or not, leaves the earlier journal as a
\* prefix of the later one, and extends it by exactly one record when its
\* append succeeds and by none when it does not.
C8_JournalAppendOnly ==
    LET before == JournalLines(pre.journal_file)
        after == JournalLines(journal_file)
        appended == \/ ret.op = "append_journal" /\ ret.raised = "none"
                    \/ ret.op = "persist_turn_and_footer"
                          /\ ret.step \notin {"write_save", "append_journal"}
    IN ret.op \in {"append_journal", "persist_turn_and_footer"} =>
          /\ IsPrefix(before, after)
          /\ Len(after) = Len(before) + (IF appended THEN 1 ELSE 0)

C8_Witness ==
    /\ Len(hist) = 3
    /\ hist[1].raised = "none"
    /\ hist[2].raised # "none"
    /\ ret.op = "append_journal"
    /\ ret.raised = "none"
    /\ Len(JournalLines(journal_file)) = 2

-----------------------------------------------------------------------------
(* SpecJournal: append_journal against the journal schemas *)

MaxJournalCalls == 2

\* a save with no loc / time: the entry's location and time are None
BareGame == [turn |-> IntV(1)]

JournalSchemas ==
    {Missing,
     BasicSchema,
     Schema(<<"turn", "location", "scene_ref">>, <<"speaker", "text">>),
     NotesSchema,
     Schema(<<"turn", "weather">>, <<>>),
     File(EmptyDict)}

Extras == {EmptyDict, [notes |-> StrV("kept")], [weather |-> StrV("rain")],
           [location |-> StrV("")], [turn |-> None_],
           [turn |-> IntV(7), weather |-> StrV("rain")]}

NoText == <<[speaker |-> StrV("Narrator"), text |-> StrV("Once")],
            [speaker |-> StrV("Toph")]>>

\* the first line has an empty text, the second no speaker, the third is whole
EmptyText == <<[speaker |-> StrV("Toph"), text |-> StrV("")],
               [speaker |-> None_, text |-> StrV("Hm")],
               [speaker |-> StrV("Narrator"), text |-> StrV("Once")]>>

InitJournal == \E save \in {Put(NewGame, "turn", IntV(0)), BareGame},
                  schema_file \in JournalSchemas :
                   InitWith(save, schema_file)

JournalAppend ==
    /\ Len(hist) < MaxJournalCalls
    /\ \E scene_ref \in {None_, StrV("scene:1")}, lines \in {<<>>, Narration, NoText, EmptyText},
          extra \in Extras :
          AppendJournal(scene_ref, lines, <<"A">>, <<"go">>, None_, extra, "ok")

JournalRefused ==
    /\ Len(hist) < MaxJournalCalls
    /\ AppendJournal(StrV("scene:1"), Narration, <<"A">>, <<"go">>, None_, EmptyDict,
                     "open_fails")

NextJournal == JournalAppend \/ JournalRefused

SpecJournal == InitJournal /\ [][NextJournal]_vars

\* the entry the last append_journal call built
BuiltEntry ==
    JournalEntry(pre.SAVE, ret.scene_ref, ret.lines, ret.tags, ret.choices, ret.choice,
                 ret.extra)

\* the root required list of the journal schema on storage
RootRequired == Range(Get(journal_schema[2], "required", <<>>))

\* C7: when the entry append_journal built lacks a key of the journal
\* schema's root required list, or holds None or "" for it, or when the
\* journal schema is absent, the call raises and the journal is exactly what
\* it was before the call.
C7_JournalStrictness ==
    (/\ ret.op = "append_journal"
     /\ \/ journal_schema = Missing
        \/ \E k \in RootRequired :
              \/ k \notin DOMAIN BuiltEntry
              \/ BuiltEntry[k] = None_
              \/ BuiltEntry[k] = StrV(""))
        => (ret.raised # "none" /\ journal_file = pre.journal_file)

C7_Witness ==
    /\ ret.op = "append_journal"
    /\ journal_schema # Missing
    /\ "location" \in RootRequired
    /\ BuiltEntry["location"] = StrV("")
    /\ BuiltEntry["scene_ref"] # None_
    /\ ret.raised = "RuntimeError"
    /\ Len(JournalLines(journal_file)) = 1
    /\ journal_file = pre.journal_file

-----------------------------------------------------------------------------
(* SpecHash: the digest, the save store and the digest field *)

MaxHashCalls == 2

\* what init_new_game_from_dropin (lines 120-127) and _ensure_lists make of a
\* drop-in that has no flags: flags.integrity is {} and holds no save_hash
FromDropin == _ensure_lists(Put(NewGame, "turn", IntV(0)))

\* _minimal_save (line 387): the digest field is present and empty
Minimal ==
    Put(FromDropin, "flags",
        [integrity |-> [schema_migration |-> StrV("v1.2"), save_hash |-> StrV("")]])

HashSaves ==
    {Put(NewGame, "turn", IntV(0)),
     FromDropin,
     Minimal,
     Put(Put(NewGame, "turn", IntV(0)), "flags", EmptyDict),
     Put(FromDropin, "handle", Obj),
     Put(Minimal, "handle", Obj)}

Digests == {StrV(""), StrV("stale")}

InitHash == \E save \in HashSaves : InitWith(save, BasicSchema)

HashCompute == Len(hist) < MaxHashCalls /\ ComputeHash

HashSetDigest == \E digest \in Digests : SetDigest(digest)

HashDelDigest == DelDigest

HashWriteSave ==
    /\ Len(hist) < MaxHashCalls
    /\ \E snapshot \in BOOLEAN, io \in {"ok", "open_fails"} : WriteSave(snapshot, io)

HashWriteSaveFile ==
    /\ Len(hist) < MaxHashCalls
    /\ \E snapshot \in BOOLEAN : WriteSaveFile(snapshot, "ok")

HashLoad == Len(hist) < MaxHashCalls /\ LoadLatest

NextHash ==
    \/ HashCompute
    \/ HashSetDigest
    \/ HashDelDigest
    \/ HashWriteSave
    \/ HashWriteSaveFile
    \/ HashLoad

SpecHash == InitHash /\ [][NextHash]_vars

\* the document without its digest field
WithoutDigest(save) ==
    IF Has(save, "flags") /\ Has(save["flags"], "integrity")
    THEN Put(save, "flags",
             Put(save["flags"], "integrity",
                 [k \in (DOMAIN save["flags"]["integrity"]) \ {"save_hash"} |->
                     save["flags"]["integrity"][k]]))
    ELSE save

\* C9: compute_save_hash is independent of the digest field: a document
\* equal to the hashed one in every field except flags.integrity.save_hash,
\* present or not in either, has the digest the call returned.
C9_DigestIndependent ==
    (ret.op = "compute_save_hash" /\ WithoutDigest(SAVE) = WithoutDigest(pre.SAVE))
        => compute_save_hash(SAVE) = ret.value

\* C10: after write_save or write_save_file has written a document, the
\* canonical save loads to a document whose recomputed digest is the stored
\* flags.integrity.save_hash.
C10_StoredDigestVerifies ==
    (ret.op \in {"write_save", "write_save_file"} /\ ret.raised = "none") =>
        LET loaded == load_latest_save_or_none(save_file).value
        IN compute_save_hash(loaded) = loaded["flags"]["integrity"]["save_hash"]

\* what C11 says of the state a call leaves
\* (the caller may edit its document afterwards): the canonical save
\* loads without error to a document equal to d as the call left it, which is
\* d as it was before the call with flags.integrity.save_hash set to the
\* digest computed by the call; every other field, at the top level and
\* inside flags.integrity, is the one d had.
RoundTripHolds ==
    (ret.op = "write_save" /\ ret.raised = "none") =>
        /\ Stored(save_file)
        /\ load_latest_save_or_none(save_file).raised = "none"
        /\ load_latest_save_or_none(save_file).value = SAVE
        /\ SAVE = SetSaveHash(EnsureIntegrity(pre.SAVE),
                              compute_save_hash(EnsureIntegrity(pre.SAVE)))
        /\ \A k \in DOMAIN pre.SAVE \ {"flags"} :
              load_latest_save_or_none(save_file).value[k] = pre.SAVE[k]
        /\ WithoutDigest(load_latest_save_or_none(save_file).value)
              = WithoutDigest(EnsureIntegrity(pre.SAVE))

\* C11: round trip.  Every call write_save(d) that returns leaves a
\* canonical save that load_latest_save_or_none() reads back as d with its
\* flags.integrity.save_hash set to the refreshed digest, every other field
\* of d unchanged.
C11_RoundTrip == [][hist' # hist => RoundTripHolds']_vars

\* a second write, over an earlier save, of a document whose digest field
\* the caller had made stale
C11_Witness ==
    /\ ret.op = "write_save"
    /\ ret.raised = "none"
    /\ Len(hist) = 2
    /\ Stored(pre.save_file)
    /\ pre.save_file # save_file
    /\ Get(pre.SAVE, "turn", None_) = IntV(0)
    /\ pre.SAVE["flags"]["integrity"]["save_hash"] = StrV("stale")
    /\ load_latest_save_or_none(save_file).value = SAVE
    /\ SAVE["flags"]["integrity"]["save_hash"] # StrV("stale")

-----------------------------------------------------------------------------
(* SpecMerge: import_save_merge and basic_validate *)

MaxMergeCalls == 3

DialogueLogOf(n, scene) ==
    [i \in 1..n |-> [turn |-> IntV(i), scene |-> StrV(scene), lines |-> <<>>,
                     choice |-> None_, tags |-> <<>>]]

TurnLogOf(n, ref) == [i \in 1..n |-> [turn |-> IntV(i), ref |-> StrV(ref)]]

\* a long game: 8 dialogue entries, 30 turn_log entries, a party only it has
LongGame ==
    [turn |-> IntV(3), loc |-> StrV("Omashu"), time |-> StrV("dusk"),
     party |-> StrV("Aang"),
     dialogue_log |-> DialogueLogOf(8, "cur"), turn_log |-> TurnLogOf(30, "cur"),
     turn_tags |-> <<"A">>,
     flags |-> [origin |-> StrV("Earth"), integrity |-> [save_hash |-> StrV("old")]]]

MergeCurrents == {Put(NewGame, "turn", IntV(2)), FromDropin, Continued, LongGame}

\* the documents found at the import path
IncomingNewer ==
    [turn |-> IntV(5), loc |-> StrV("Gaoling"), weather |-> StrV("rain"),
     dialogue_log |-> DialogueLogOf(1, "in")]

IncomingLong ==
    [turn |-> IntV(3), loc |-> StrV("Gaoling"), weather |-> StrV("rain"),
     dialogue_log |-> DialogueLogOf(5, "in"), turn_log |-> TurnLogOf(25, "in"),
     flags |-> [integrity |-> [save_hash |-> StrV("stale")]]]

IncomingDocs ==
    {IncomingNewer,
     IncomingLong,
     Put(IncomingLong, "turn", StrV("3")),
     [loc |-> StrV("Gaoling"), weather |-> StrV("rain")],
     [turn |-> IntV(2), weather |-> StrV("rain"), turn_log |-> TurnLogOf(2, "in")],
     [turn |-> StrV("abc"), loc |-> StrV("Gaoling")]}

ImportFiles == {Missing, File(<<>>)} \cup {File(<<DumpJson(d)>>) : d \in IncomingDocs}

SaveSchemas ==
    {BasicSaveSchema,
     SaveSchema(ListV(<<"weather", "turn", "party", "weather">>)),
     SaveSchema(ListV(<<>>)),
     Missing,
     Garbage,
     File(EmptyDict),
     File([schema |-> EmptyDict]),
     SaveSchema(None_),
     SaveSchema(StrV("t"))}

InitMerge ==
    /\ \E save \in MergeCurrents :
          /\ SAVE = save
          /\ pre = [init |-> save, SAVE |-> save, save_file |-> Missing,
                    snapshots |-> EmptyDict, journal_file |-> Missing]
    /\ import_file \in ImportFiles
    /\ save_schema \in SaveSchemas
    /\ save_file = Missing
    /\ snapshots = EmptyDict
    /\ journal_file = Missing
    /\ journal_schema = BasicSchema
    /\ ret = [op |-> "none", raised |-> "none"]
    /\ hist = <<>>
    /\ callers = <<>>

MergeEndTurn ==
    /\ Len(hist) < MaxMergeCalls
    /\ EndTurn(StrV("scene:1"), Narration, <<"A">>, None_, "GM")

MergeImport == Len(hist) < MaxMergeCalls /\ ImportSaveMerge

MergeValidate == Len(hist) < MaxMergeCalls /\ BasicValidate

NextMerge == MergeEndTurn \/ MergeImport \/ MergeValidate

SpecMerge == InitMerge /\ [][NextMerge]_vars

\* the last call was an import_save_merge that returned
MergeReturned == ret.op = "import_save_merge" /\ ret.raised = "none"

\* the two documents of the last merge and their turn numbers
Incoming == LoadJson(import_file[2][1])
Current == pre.SAVE
TurnIn == IntOf(Get(Incoming, "turn", IntV(0))).n
TurnCur == IntOf(Get(Current, "turn", IntV(0))).n

\* C12: when incoming.turn > current.turn the merge returns the incoming
\* document: its keys (plus flags, which carries the digest), each with
\* incoming's value, nothing of current, and equal to incoming once the
\* digest field is set aside; the warnings note <incoming turn>><current turn>.
C12_IncomingNewerWins ==
    (MergeReturned /\ TurnIn > TurnCur) =>
        /\ DOMAIN ret.value = (DOMAIN Incoming) \cup {"flags"}
        /\ \A k \in (DOMAIN Incoming) \ {"flags"} : ret.value[k] = Incoming[k]
        /\ WithoutDigest(ret.value) = WithoutDigest(EnsureIntegrity(Incoming))
        /\ ("info:incoming_newer:" \o ToString(TurnIn) \o ">" \o ToString(TurnCur))
              \in Range(ret.warnings)

\* incoming at turn 5 against the long game at turn 3
C12_Witness ==
    /\ MergeReturned
    /\ Incoming = IncomingNewer
    /\ TurnCur = 3
    /\ Has(Current, "party")
    /\ ~Has(ret.value, "party")
    /\ ret.value["loc"] = StrV("Gaoling")
    /\ "info:incoming_newer:5>3" \in Range(ret.warnings)

\* the flags of a document once flags.integrity exists, digest field aside
FlagsAside(save) == WithoutDigest(EnsureIntegrity(save))["flags"]

\* C13: when incoming.turn < current.turn the merge returns current's keys
\* with current's values (inside flags, all but the digest field), plus the
\* keys only incoming has, with incoming's values; no key the two share
\* takes incoming's value, and the warnings note current_newer.
C13_CurrentNewerFillsGaps ==
    (MergeReturned /\ TurnIn < TurnCur) =>
        /\ DOMAIN ret.value = (DOMAIN Current) \cup (DOMAIN Incoming) \cup {"flags"}
        /\ \A k \in (DOMAIN Current) \ {"flags"} : ret.value[k] = Current[k]
        /\ \A k \in (DOMAIN Incoming) \ ((DOMAIN Current) \cup {"flags"}) :
              ret.value[k] = Incoming[k]
        /\ FlagsAside(ret.value) = IF Has(Current, "flags") THEN FlagsAside(Current)
                                   ELSE FlagsAside(Incoming)
        /\ ("info:current_newer:" \o ToString(TurnCur) \o ">" \o ToString(TurnIn))
              \in Range(ret.warnings)

\* the long game at turn 3 against an incoming document at turn 2 that has
\* its own turn_log and a weather the long game lacks
C13_Witness ==
    /\ MergeReturned
    /\ Current = LongGame
    /\ TurnIn = 2
    /\ Incoming["turn_log"] # Current["turn_log"]
    /\ ret.value["turn_log"] = Current["turn_log"]
    /\ ret.value["turn"] = IntV(3)
    /\ ~Has(Current, "weather")
    /\ ret.value["weather"] = StrV("rain")
    /\ "info:current_newer:3>2" \in Range(ret.warnings)

Min(a, b) == IF a < b THEN a ELSE b

\* current's entries of a log followed by incoming's (none when the key is absent)
BothLogs(k) == Get(Current, k, <<>>) \o Get(Incoming, k, <<>>)

\* C14: when the turns are equal, every top-level key other than the two
\* logs has incoming's value when incoming has the key and current's value
\* otherwise (inside flags, digest field aside), dialogue_log is the last 10
\* and turn_log the last 50 of current's entries followed by incoming's, so
\* their lengths are min(cap, len(current log) + len(incoming log)).
C14_EqualTurnMerge ==
    (MergeReturned /\ TurnIn = TurnCur) =>
        /\ DOMAIN ret.value = (DOMAIN Current) \cup (DOMAIN Incoming)
                                 \cup {"dialogue_log", "turn_log", "flags"}
        /\ \A k \in (DOMAIN ret.value) \ {"dialogue_log", "turn_log", "flags"} :
              ret.value[k] = IF Has(Incoming, k) THEN Incoming[k] ELSE Current[k]
        /\ FlagsAside(ret.value) = IF Has(Incoming, "flags") THEN FlagsAside(Incoming)
                                   ELSE FlagsAside(Current)
        /\ ret.value["dialogue_log"] = Last(BothLogs("dialogue_log"), 10)
        /\ Len(ret.value["dialogue_log"]) = Min(10, Len(BothLogs("dialogue_log")))
        /\ ret.value["turn_log"] = Last(BothLogs("turn_log"), 50)
        /\ Len(ret.value["turn_log"]) = Min(50, Len(BothLogs("turn_log")))
        /\ "info:merged_equal_turn" \in Range(ret.warnings)

\* 8 and 5 dialogue entries, 30 and 25 turn_log entries
C14_Witness ==
    /\ MergeReturned
    /\ Current = LongGame
    /\ Incoming = IncomingLong
    /\ Len(BothLogs("dialogue_log")) = 13
    /\ Len(ret.value["dialogue_log"]) = 10
    /\ ret.value["dialogue_log"][1] = Current["dialogue_log"][4]
    /\ ret.value["dialogue_log"][10] = Incoming["dialogue_log"][5]
    /\ Len(ret.value["turn_log"]) = 50
    /\ ret.value["turn_log"][1] = Current["turn_log"][6]
    /\ ret.value["loc"] = StrV("Gaoling")
    /\ ret.value["party"] = StrV("Aang")

\* C15: in each of the three merge cases the document import_save_merge
\* returns carries a flags.integrity.save_hash equal to compute_save_hash of
\* that returned document, also when neither input had a save_hash key.
C15_MergedDigestVerifies ==
    MergeReturned =>
        compute_save_hash(ret.value) = ret.value["flags"]["integrity"]["save_hash"]

\* the same, for merges whose result already held a save_hash key before the
\* digest was written into it
MergedHadDigestKey ==
    LET before == MergeByTurn(Incoming, Current, TurnIn, TurnCur)
    IN /\ Has(before, "flags")
       /\ Has(before["flags"], "integrity")
       /\ Has(before["flags"]["integrity"], "save_hash")

MergedDigestVerifiesWhenKeyed ==
    (MergeReturned /\ MergedHadDigestKey) =>
        compute_save_hash(ret.value) = ret.value["flags"]["integrity"]["save_hash"]

\* the save schema on storage is readable JSON holding a list at
\* schema.top_level_order
SchemaWellFormed ==
    /\ save_schema # Missing
    /\ save_schema # Garbage
    /\ Has(save_schema[2], "schema")
    /\ Has(save_schema[2]["schema"], "top_level_order")
    /\ save_schema[2]["schema"]["top_level_order"][1] = "#list"

RequiredKeys == save_schema[2]["schema"]["top_level_order"][2]

\* the issues the schema asks for a document: one per entry of the required
\* list that is not a key of it, in the list's order
IssuesOf(doc) ==
    LET at == SelectSeq([i \in 1..Len(RequiredKeys) |-> i],
                        LAMBDA i : RequiredKeys[i] \notin DOMAIN doc)
    IN [n \in 1..Len(at) |-> "missing:" \o RequiredKeys[at[n]]]

\* the import path holds a document whose turn, like current's, int() reads
MergeInputsReadable ==
    /\ Stored(import_file)
    /\ IntOf(Get(Incoming, "turn", IntV(0))).ok
    /\ IntOf(Get(Current, "turn", IntV(0))).ok

\* C16: with a readable, well-formed save schema, a call of import_save_merge
\* returns a merged document whichever required keys incoming or current
\* lack: it does not raise, and its warnings are incoming's missing:<key>
\* issues, then current's, then the note of the merge case.
C16_MissingKeysNeverBlockMerge ==
    (ret.op = "import_save_merge" /\ SchemaWellFormed /\ MergeInputsReadable) =>
        /\ ret.raised = "none"
        /\ DOMAIN ret.value # {}
        /\ SubSeq(ret.warnings, 1, Len(ret.warnings) - 1) = IssuesOf(Incoming) \o IssuesOf(Current)
        /\ \A k \in Range(RequiredKeys) :
              (~Has(Incoming, k) \/ ~Has(Current, k)) => ("missing:" \o k) \in Range(ret.warnings)

\* incoming lacks turn and party, current lacks weather and party
C16_Witness ==
    /\ MergeReturned
    /\ RequiredKeys = <<"weather", "turn", "party", "weather">>
    /\ ~Has(Incoming, "turn")
    /\ ~Has(Current, "weather")
    /\ ret.warnings = <<"missing:turn", "missing:party",
                        "missing:weather", "missing:party", "missing:weather",
                        "info:current_newer:2>0">>
    /\ ret.value["weather"] = StrV("rain")

\* C17: basic_validate raises when the save schema is absent or does not
\* have the expected shape (a list of required keys at
\* schema.top_level_order); otherwise it does not raise and returns one
\* missing:<key> issue per required key absent from the document, in the
\* schema's order, the empty list when none is absent.
C17_ValidateFatalOrIssues ==
    ret.op = "basic_validate" =>
        IF SchemaWellFormed
        THEN ret.raised = "none" /\ ret.value = IssuesOf(pre.SAVE)
        ELSE ret.raised = "RuntimeError"

\* the same with "no required-key list" read as: nothing that can be
\* iterated at schema.top_level_order
SchemaIterable ==
    /\ save_schema # Missing
    /\ save_schema # Garbage
    /\ Has(save_schema[2], "schema")
    /\ Has(save_schema[2]["schema"], "top_level_order")
    /\ save_schema[2]["schema"]["top_level_order"][1] \in {"#list", "#str"}

ValidateFatalUnlessIterable ==
    ret.op = "basic_validate" =>
        /\ SchemaWellFormed => (ret.raised = "none" /\ ret.value = IssuesOf(pre.SAVE))
        /\ ~SchemaIterable => ret.raised = "RuntimeError"
        /\ SchemaIterable => ret.raised = "none"

-----------------------------------------------------------------------------
(* Failure surfacing of persist_turn_and_footer, under SpecSim *)

FailedPersists ==
    {i \in 1..Len(hist) : hist[i].op = "persist_turn_and_footer" /\ hist[i].raised # "none"}

\* C18: every way persist_turn_and_footer can fail to confirm persistence
\* (an exception during the save write, an exception during the journal
\* append, the check of the two files after the writes) reaches the caller
\* as one and the same failure kind, so that a handler for that kind catches
\* all of them.
C18_SingleFailureKind ==
    \A i, j \in FailedPersists : hist[i].raised = hist[j].raised

\* the part that holds: an exception raised by write_save or append_journal
\* reaches the caller as the RuntimeError PERSISTENCE_FAILED with its cause
ExceptionsAreClassified ==
    (ret.op = "persist_turn_and_footer" /\ ret.step \in {"write_save", "append_journal"}) =>
        /\ ret.raised = "RuntimeError"
        /\ ret.message = "PERSISTENCE_FAILED"
        /\ ret.cause # "none"

\* every call made so far was a persist_turn_and_footer
PersistOnly == \A i \in 1..Len(hist) : hist[i].op = "persist_turn_and_footer"

ReturnedNormally == {i \in 1..Len(hist) : hist[i].raised = "none"}

\* C19: after any sequence of persist_turn_and_footer calls, whichever step
\* each one failed at, the journal holds as many records as calls returned
\* normally, and a call reported as failed has left no record.
C19_OneRecordPerPersistedTurn ==
    PersistOnly =>
        /\ Len(JournalLines(journal_file)) = Cardinality(ReturnedNormally)
        /\ (ret.op = "persist_turn_and_footer" /\ ret.raised # "none")
              => JournalLines(journal_file) = JournalLines(pre.journal_file)

\* a failed call whose record is in the journal
RecordOfFailedCall ==
    /\ ret.op = "persist_turn_and_footer"
    /\ ret.raised # "none"
    /\ Len(JournalLines(journal_file)) = Len(JournalLines(pre.journal_file)) + 1

-----------------------------------------------------------------------------
(* Snapshots, under SpecTurn *)

TurnNumbers == -(MaxParse + MaxTurnCalls)..(MaxParse + MaxTurnCalls)

\* the snapshot file of turn number m
SnapshotOf(snaps, m) == Get(snaps, ToString(m), Missing)

\* the snapshot files a call created or rewrote
Rewritten(before, after) ==
    {name \in DOMAIN after : Get(before, name, Missing) # after[name]}

\* C20: the write_save(snapshot=True) of a persist_turn_and_footer call on a
\* document that is at turn N once the turn has been taken touches no
\* snapshot but the one of turn N: the snapshot of every turn M # N is what it
\* was, no snapshot is removed, and an IC call, whose turn number has not
\* changed, rewrites only the snapshot of that turn.
C20_SnapshotFrame ==
    ret.op = "persist_turn_and_footer" =>
        /\ DOMAIN pre.snapshots \subseteq DOMAIN snapshots
        /\ Cardinality(Rewritten(pre.snapshots, snapshots)) <= 1
        /\ TurnReading(SAVE).ok =>
              /\ \A m \in TurnNumbers \ {TurnReading(SAVE).n} :
                    SnapshotOf(snapshots, m) = SnapshotOf(pre.snapshots, m)
              /\ ret.raised = "none" =>
                    SnapshotOf(snapshots, TurnReading(SAVE).n) = save_file
        /\ (InCharacter(ret.mode) /\ TurnReading(pre.SAVE).ok) =>
              Rewritten(pre.snapshots, snapshots) \subseteq {ToString(TurnReading(pre.SAVE).n)}

\* turns 1 and 2 taken, then an IC call that rewrites the snapshot of turn 2
\* and leaves the snapshot of turn 1 alone
C20_Witness ==
    /\ Len(hist) = 3
    /\ ret.op = "persist_turn_and_footer"
    /\ InCharacter(ret.mode)
    /\ ret.raised = "none"
    /\ Exists(SnapshotOf(pre.snapshots, 1))
    /\ Exists(SnapshotOf(pre.snapshots, 2))
    /\ SnapshotOf(snapshots, 2) # SnapshotOf(pre.snapshots, 2)
    /\ SnapshotOf(snapshots, 1) = SnapshotOf(pre.snapshots, 1)
    /\ SnapshotOf(snapshots, 1) # SnapshotOf(snapshots, 2)

-----------------------------------------------------------------------------
(* SpecTurnLog: the turn_log over more calls than the merge-time cap *)

MaxTurnLogCalls == 52

\* an IC call is offered at every ICEvery-th call, a GM call always
ICEvery == 13

InitTurnLog ==
    \E save \in {Put(NewGame, "turn", IntV(0)),
                 Put(Put(NewGame, "turn", IntV(0)), "turn_log", <<>>),
                 Continued} :
        InitWith(save, BasicSchema)

TurnLogEndTurnGM ==
    /\ Len(hist) < MaxTurnLogCalls
    /\ EndTurn(StrV("scene:1"), Narration, <<>>, None_, "GM")

TurnLogEndTurnIC ==
    /\ Len(hist) < MaxTurnLogCalls
    /\ Len(hist) % ICEvery = 0
    /\ EndTurn(None_, <<>>, <<>>, IntV(2), "IC")

NextTurnLog == TurnLogEndTurnGM \/ TurnLogEndTurnIC

SpecTurnLog == InitTurnLog /\ [][NextTurnLog]_vars

\* the {turn, ref} pair of one recorded call
CallPair(h) ==
    [turn |-> h.turn, ref |-> IF h.scene_ref = None_ THEN StrV("") ELSE h.scene_ref]

\* C21: every end_turn call, GM or IC, appends exactly one {turn, ref} pair
\* (the turn after the bookkeeping, the scene ref) at the end of turn_log
\* and evicts nothing: the log is the one the game started with followed by
\* one pair per call, so from an empty log its length is the number of calls,
\* beyond 50 as well.
C21_TurnLogUnbounded ==
    ret.op = "end_turn" =>
        /\ SAVE["turn_log"] = Append(Get(pre.SAVE, "turn_log", <<>>),
                                     [turn |-> SAVE["turn"],
                                      ref |-> IF ret.scene_ref = None_ THEN StrV("")
                                              ELSE ret.scene_ref])
        /\ SAVE["turn_log"] = Get(pre.init, "turn_log", <<>>)
                                 \o [i \in 1..Len(hist) |-> CallPair(hist[i])]
        /\ Len(SAVE["turn_log"]) = Len(Get(pre.init, "turn_log", <<>>)) + Len(hist)

\* 52 calls from an empty log, the first of them in character
C21_Witness ==
    /\ ret.op = "end_turn"
    /\ Len(hist) = 52
    /\ Get(pre.init, "turn_log", <<>>) = <<>>
    /\ hist[1].mode = "IC"
    /\ Len(SAVE["turn_log"]) = 52
    /\ SAVE["turn_log"][1] = [turn |-> IntV(0), ref |-> StrV("")]
    /\ SAVE["turn_log"][52] = [turn |-> SAVE["turn"], ref |-> StrV("scene:1")]

-----------------------------------------------------------------------------
(* The dialogue lines and the extra fields of a journal entry, under SpecJournal *)

\* the keys the journal schema on storage requires of a dialogue item
ItemRequired ==
    IF Has(journal_schema[2], "properties")
    THEN journal_schema[2]["properties"]["dialogue"]["items"]["required"]
    ELSE <<>>

\* the line holds every required key with a value other than None and ""
LineComplete(line) ==
    \A k \in Range(ItemRequired) :
        k \in DOMAIN line /\ line[k] # None_ /\ line[k] # StrV("")

\* the positions (from 0) of the dialogue lines of the last call that are not
OffendingLines == {i \in 0..(Len(ret.lines) - 1) : ~LineComplete(ret.lines[i + 1])}

\* the built entry passes the root-level required check
RootSatisfied ==
    \A k \in RootRequired :
        k \in DOMAIN BuiltEntry /\ BuiltEntry[k] # None_ /\ BuiltEntry[k] # StrV("")

\* an append_journal call that reached the dialogue check on working storage
ReachedDialogueCheck ==
    /\ ret.op = "append_journal"
    /\ journal_schema # Missing
    /\ RootSatisfied
    /\ ret.io = "ok"

\* C22: when the journal schema requires keys of dialogue items,
\* append_journal succeeds only if every dialogue line holds each of them
\* with a value other than None and ""; otherwise it raises an error naming
\* the index of the first offending line and appends nothing.  When the
\* schema requires no such keys the lines are not checked.
C22_DialogueLinesChecked ==
    ReachedDialogueCheck =>
        IF ItemRequired # <<>> /\ OffendingLines # {}
        THEN /\ ret.raised = "RuntimeError"
             /\ \E k \in Range(ItemRequired) :
                   ret.cause = "Journal dialogue line "
                                  \o ToString(CHOOSE i \in OffendingLines :
                                                  \A j \in OffendingLines : i <= j)
                                  \o " missing '" \o k \o "' per schema"
             /\ journal_file = pre.journal_file
        ELSE /\ ret.raised = "none"
             /\ Len(JournalLines(journal_file)) = Len(JournalLines(pre.journal_file)) + 1

\* lines 0 and 1 offend (an empty text, a None speaker): line 0 is named
C22_Witness ==
    /\ ReachedDialogueCheck
    /\ ItemRequired = <<"speaker", "text">>
    /\ OffendingLines = {0, 1}
    /\ ret.raised = "RuntimeError"
    /\ ret.cause = "Journal dialogue line 0 missing 'text' per schema"
    /\ Len(JournalLines(journal_file)) = 1
    /\ journal_file = pre.journal_file

\* incomplete lines appended under a schema that requires nothing of them
UncheckedLinesAppended ==
    /\ ReachedDialogueCheck
    /\ ItemRequired = <<>>
    /\ ret.lines = EmptyText
    /\ ret.raised = "none"

-----------------------------------------------------------------------------
(* The hasher's frame, under SpecHash *)

\* C23: compute_save_hash never mutates the document it is given: the
\* caller's document after the call is the document before it, with the
\* same flags.integrity.save_hash and the same flags and integrity
\* sub-documents present or absent, on the normal and on the fallback path.
C23_HashLeavesDocument ==
    [][(hist' # hist /\ ret'.op = "compute_save_hash") => SAVE' = SAVE]_vars

\* a document whose digest field is stale is hashed with the field zeroed and
\* still holds the stale digest
C23_Witness ==
    /\ ret.op = "compute_save_hash"
    /\ Serializable(SAVE)
    /\ SAVE = pre.SAVE
    /\ Has(SAVE, "flags")
    /\ Get(Get(SAVE["flags"], "integrity", EmptyDict), "save_hash", None_) = StrV("stale")
    /\ ret.value = Sha256(SortedJson(SetSaveHash(SAVE, StrV(""))))

\* the fallback path: a document json.dumps refuses
HashedByRepr ==
    /\ ret.op = "compute_save_hash"
    /\ ~Serializable(SAVE)
    /\ SAVE = pre.SAVE
    /\ ret.value = Sha256(Repr(SAVE))

-----------------------------------------------------------------------------
(* SpecBookkeeping: persist_turn_and_footer when a step of it raises *)

MaxBookCalls == 3

\* a loaded document whose turn_tags is null
NullTags == Put(Put(NewGame, "turn", IntV(0)), "turn_tags", None_)

InitBookkeeping ==
    \E save \in {Put(NewGame, "turn", IntV(0)), NullTags},
       schema_file \in {Missing, BasicSchema, NotesSchema} :
        InitWith(save, schema_file)

BookPersist ==
    /\ Len(hist) < MaxBookCalls
    /\ \E mode \in {"GM", "IC"}, tags \in {<<>>, <<"A">>}, io \in RaisingIo :
          PersistTurn(StrV("scene:1"), Narration, tags, <<"go">>, None_, mode, io)

BookEndTurn ==
    /\ Len(hist) < MaxBookCalls
    /\ \E tags \in {<<>>, <<"A">>} : EndTurn(StrV("scene:1"), Narration, tags, None_, "GM")

NextBookkeeping == BookPersist \/ BookEndTurn

SpecBookkeeping == InitBookkeeping /\ [][NextBookkeeping]_vars

\* the failure the caller sees is the classified persistence failure
ReportedAsPersistenceFailed ==
    ret.raised = "RuntimeError" /\ ret.message = "PERSISTENCE_FAILED"

\* C24: only failures of the save write and of the journal append are
\* reported as PERSISTENCE_FAILED; an exception raised by the bookkeeping
\* step (end_turn) reaches the caller as a different failure.
C24_BookkeepingFailureDistinct ==
    (ret.op = "persist_turn_and_footer" /\ ret.raised # "none") =>
        (ReportedAsPersistenceFailed <=> ret.step \in {"write_save", "append_journal"})

\* the part that holds: what the two writes raise is reported as PERSISTENCE_FAILED
WriteFailuresClassified ==
    (ret.op = "persist_turn_and_footer" /\ ret.step \in {"write_save", "append_journal"})
        => ReportedAsPersistenceFailed

-----------------------------------------------------------------------------
(* SpecRetry: a turn retried after its journal append failed *)

MaxRetryCalls == 3

\* a journal schema the entries of persist_turn_and_footer cannot satisfy
\* (notes is built as "") or no schema file at all
InitRetry ==
    \E schema_file \in {Missing, NotesSchema} :
        InitWith(Put(NewGame, "turn", IntV(0)), schema_file)

RetryPersist ==
    /\ Len(hist) < MaxRetryCalls
    /\ \E mode \in {"GM", "IC"}, tags \in {<<>>, <<"A">>}, io \in RaisingIo :
          PersistTurn(StrV("scene:1"), Narration, tags, <<"go">>, None_, mode, io)

\* the operator puts a journal schema in place between two calls
InstallSchema ==
    /\ journal_schema # BasicSchema
    /\ journal_schema' = BasicSchema
    /\ UNCHANGED <<SAVE, save_file, snapshots, journal_file, save_schema, import_file, ret, pre, hist, callers>>

NextRetry == RetryPersist \/ InstallSchema

SpecRetry == InitRetry /\ [][NextRetry]_vars

\* the turns the journal has an entry for
JournalTurns(jfile) == {JournalLines(jfile)[i][2].turn : i \in 1..Len(JournalLines(jfile))}

\* the last call failed in its journal append
JournalAppendFailed == ret.op = "persist_turn_and_footer" /\ ret.step = "append_journal"

\* the turn of the last entry of a log
LastTurnOf(log) == IF log = <<>> THEN None_ ELSE log[Len(log)].turn

\* what a failed journal append leaves behind
AdvancedAndStored(before, after, mode, sfile, snaps, jfile_before, jfile_after) ==
    /\ ~InCharacter(mode) => Get(after, "turn", None_) = IntV(TurnReading(before).n + 1)
    /\ Len(Get(after, "dialogue_log", <<>>)) = Len(Get(before, "dialogue_log", <<>>)) + 1
    /\ Len(Get(after, "turn_log", <<>>)) = Len(Get(before, "turn_log", <<>>)) + 1
    /\ LastTurnOf(Get(after, "dialogue_log", <<>>)) = Get(after, "turn", None_)
    /\ sfile = File(<<DumpJson(after)>>)
    /\ SnapshotOf(snaps, TurnReading(after).n) = sfile
    /\ jfile_after = jfile_before

\* C25: the save write precedes the journal append and nothing is rolled
\* back: when the journal append fails, the in-memory save, the canonical
\* save and the snapshot already hold the advanced turn and the appended log
\* entries; a retry of the turn in GM mode then advances the turn again and
\* the turn number of the failed call has no journal entry.
C25_NoRollbackOnJournalFailure ==
    [][(hist' # hist /\ ret'.op = "persist_turn_and_footer") =>
          /\ ret'.step = "append_journal" =>
                AdvancedAndStored(SAVE, SAVE', ret'.mode, save_file', snapshots',
                                  journal_file, journal_file')
          /\ (JournalAppendFailed /\ ~InCharacter(ret.mode) /\ ret'.mode = "GM"
              /\ ret'.step \notin {"end_turn", "write_save"}) =>
                /\ SAVE'["turn"] = IntV(TurnReading(pre.SAVE).n + 2)
                /\ SAVE["turn"] \notin JournalTurns(journal_file')]_vars

\* turn 1 failed in the journal append, the schema was installed, the retry
\* returned: the document is at turn 2, the journal holds turn 2 only and
\* both snapshots exist
C25_Witness ==
    /\ Len(hist) = 2
    /\ hist[1].raised = "RuntimeError" /\ hist[1].turn = IntV(1)
    /\ ret.op = "persist_turn_and_footer" /\ ret.raised = "none"
    /\ SAVE["turn"] = IntV(2)
    /\ JournalTurns(journal_file) = {IntV(2)}
    /\ Exists(SnapshotOf(snapshots, 1)) /\ Exists(SnapshotOf(snapshots, 2))

-----------------------------------------------------------------------------
(* SpecCallers: two callers, each with its own copy of the save document,
   inside persist_turn_and_footer at the same time.  A caller's steps are the
   calls persist_turn_and_footer makes, with each file write split where
   the operating system can switch: open(..., "w") truncates the file, the
   write that follows puts the blob at offset 0 *)

Callers == {1, 2}

\* what each caller passes: the second caller's turn has one more line
SceneOf(c) == IF c = 1 THEN StrV("scene:1") ELSE StrV("scene:2")
LinesOf(c) == IF c = 1 THEN Narration ELSE Narration \o Narration

At(c, pc) == callers[c].pc = pc
Goto(c, pc) == callers' = [callers EXCEPT ![c].pc = pc]

\* the length of a blob, up to what orders the blobs of the two callers: the
\* dialogue lines its document holds
BlobSize(blob) ==
    IF blob[1] # "#json-indent" THEN 0
    ELSE Len(Get(blob[2], "dialogue_log", <<>>)[Len(Get(blob[2], "dialogue_log", <<>>))].lines)

\* f.write(blob) on a file opened with "w" some time ago: the blob goes to
\* offset 0 of whatever the file holds by now; a longer content written by
\* the other caller in between keeps its tail
WriteAtStart(onfile, blob) ==
    IF Exists(onfile) /\ onfile[2] # <<>> /\ BlobSize(onfile[2][1]) > BlobSize(blob)
    THEN File(<<<<"#torn", blob[2]>>>>)
    ELSE File(<<blob>>)

\* line 318 and lines 192-196: the bookkeeping and the digest, in memory
CallerEndTurn ==
    \E c \in Callers :
        /\ At(c, "end_turn")
        /\ callers' = [callers EXCEPT
                          ![c].SAVE = RefreshHash(EnsureIntegrity(
                                          end_turn(callers[c].SAVE, SceneOf(c), LinesOf(c),
                                                   <<>>, None_, "GM"))),
                          ![c].pc = "open_save"]
        /\ UNCHANGED <<SAVE, save_file, snapshots, journal_file, journal_schema, save_schema, import_file, ret, pre, hist>>

\* line 197: p.open("w") leaves SAVE_PATH empty
CallerOpenSave ==
    \E c \in Callers :
        /\ At(c, "open_save")
        /\ save_file' = File(<<>>)
        /\ Goto(c, "write_save")
        /\ UNCHANGED <<SAVE, snapshots, journal_file, journal_schema, save_schema, import_file, ret, pre, hist>>

\* line 198: write, flush, fsync
CallerWriteSave ==
    \E c \in Callers :
        /\ At(c, "write_save")
        /\ save_file' = WriteAtStart(save_file, DumpJson(callers[c].SAVE))
        /\ Goto(c, "open_snapshot")
        /\ UNCHANGED <<SAVE, snapshots, journal_file, journal_schema, save_schema, import_file, ret, pre, hist>>

\* line 201: snap.open("w")
CallerOpenSnapshot ==
    \E c \in Callers :
        /\ At(c, "open_snapshot")
        /\ snapshots' = Put(snapshots, SnapshotName(callers[c].SAVE), File(<<>>))
        /\ Goto(c, "write_snapshot")
        /\ UNCHANGED <<SAVE, save_file, journal_file, journal_schema, save_schema, import_file, ret, pre, hist>>

\* line 202 and the close of the with block
CallerWriteSnapshot ==
    \E c \in Callers :
        /\ At(c, "write_snapshot")
        /\ snapshots' = Put(snapshots, SnapshotName(callers[c].SAVE),
                            WriteAtStart(Get(snapshots, SnapshotName(callers[c].SAVE), Missing),
                                         DumpJson(callers[c].SAVE)))
        /\ Goto(c, "append_journal")
        /\ UNCHANGED <<SAVE, save_file, journal_file, journal_schema, save_schema, import_file, ret, pre, hist>>

\* line 320: one line appended (the file is opened with "a")
CallerAppendJournal ==
    \E c \in Callers :
        /\ At(c, "append_journal")
        /\ journal_file' = append_journal(callers[c].SAVE, SceneOf(c), LinesOf(c), <<>>, <<>>,
                                          None_, EmptyDict, journal_schema, journal_file,
                                          "ok").journal_file
        /\ Goto(c, "compose_footer")
        /\ UNCHANGED <<SAVE, save_file, snapshots, journal_schema, save_schema, import_file, ret, pre, hist>>

\* lines 323-325: the post-check reads the sizes of the two files as they
\* are now
CallerFooter ==
    \E c \in Callers :
        /\ At(c, "compose_footer")
        /\ callers' = [callers EXCEPT
                          ![c].raised = IF NotWritten \in Range(compose_footer(save_file,
                                                                               journal_file))
                                        THEN "AssertionError" ELSE "none",
                          ![c].pc = "done"]
        /\ UNCHANGED <<SAVE, save_file, snapshots, journal_file, journal_schema, save_schema, import_file, ret, pre, hist>>

InitCallers ==
    \E save \in {Put(NewGame, "turn", IntV(0)), Continued} :
        /\ SAVE = save
        /\ save_schema = BasicSaveSchema
        /\ import_file = Missing
        /\ save_file = Missing
        /\ snapshots = EmptyDict
        /\ journal_file = Missing
        /\ journal_schema = BasicSchema
        /\ ret = [op |-> "none", raised |-> "none"]
        /\ pre = [init |-> save, SAVE |-> save, save_file |-> Missing,
                  snapshots |-> EmptyDict, journal_file |-> Missing]
        /\ hist = <<>>
        /\ callers = [c \in Callers |-> [pc |-> "end_turn", SAVE |-> save, raised |-> "none"]]

NextCallers ==
    \/ CallerEndTurn
    \/ CallerOpenSave
    \/ CallerWriteSave
    \/ CallerOpenSnapshot
    \/ CallerWriteSnapshot
    \/ CallerAppendJournal
    \/ CallerFooter

SpecCallers == InitCallers /\ [][NextCallers]_vars

BothDone == \A c \in Callers : At(c, "done")

\* the blob a caller wrote
BlobOf(c) == File(<<DumpJson(callers[c].SAVE)>>)

\* C26: two callers with their own copies of the save at turn N run
\* persist_turn_and_footer in any interleaving: both return normally, the
\* canonical save and the snapshot of turn N+1 are the document of one of
\* them (the last writer), and the journal holds two entries of turn N+1.
C26_LastWriterWinsUndetected ==
    BothDone =>
        /\ \A c \in Callers : callers[c].raised = "none"
        /\ \E c \in Callers : save_file = BlobOf(c)
        /\ \E c \in Callers : SnapshotOf(snapshots, TurnReading(SAVE).n + 1) = BlobOf(c)
        /\ Len(JournalLines(journal_file)) = 2
        /\ JournalTurns(journal_file) = {IntV(TurnReading(SAVE).n + 1)}

\* the part that holds in every interleaving: both entries reach the journal
\* under the same turn number
JournalHoldsBothEntries ==
    BothDone =>
        /\ Len(JournalLines(journal_file)) = 2
        /\ JournalTurns(journal_file) = {IntV(TurnReading(SAVE).n + 1)}

\* a caller whose post-check ran while the other caller had the save open
PostCheckSawEmptySave == \E c \in Callers : callers[c].raised = "AssertionError"

\* the canonical save holding the head of one blob and the tail of the other
SaveTorn == BothDone /\ \A c \in Callers : save_file # BlobOf(c)

-----------------------------------------------------------------------------
(* C27: the extra fields of append_journal, under SpecJournal *)

\* what append_journal builds for a root key before extra is applied, for
\* the keys the journal schemas name; None stands for a key it does not build
PlainField(k) ==
    CASE k = "turn" -> IntV(TurnReading(pre.SAVE).n)
      [] k = "timestamp" -> NowIso
      [] k = "location" -> Get(pre.SAVE, "loc", None_)
      [] k = "scene_ref" -> IF ret.scene_ref = StrV("") THEN None_ ELSE ret.scene_ref
      [] k = "notes" -> StrV("")
      [] OTHER -> None_

\* the field after the overwrite by extra
EffectiveField(k) == IF Has(ret.extra, k) THEN ret.extra[k] ELSE PlainField(k)

NoneOrEmpty(v) == v = None_ \/ v = StrV("")

\* the entry of the journal's last line
LastJournalEntry == JournalLines(journal_file)[Len(JournalLines(journal_file))][2]

\* an append_journal call that reached the root check, with nothing else to
\* stop it
ReachedRootCheck ==
    /\ ret.op = "append_journal"
    /\ journal_schema # Missing
    /\ ret.io = "ok"
    /\ (ItemRequired = <<>> \/ OffendingLines = {})

\* C27: the fields of extra overwrite the built entry's fields of the same
\* name (turn included) before validation, and validation reads the entry
\* after the overwrite: a required key that extra sets to None or "" makes
\* the append fail with nothing written, a required key the built entry
\* lacks and extra supplies makes it pass.
C27_ExtraOverwritesBeforeValidation ==
    ReachedRootCheck =>
        IF \E k \in RootRequired : NoneOrEmpty(EffectiveField(k))
        THEN ret.raised = "RuntimeError" /\ journal_file = pre.journal_file
        ELSE /\ ret.raised = "none"
             /\ Len(JournalLines(journal_file)) = Len(JournalLines(pre.journal_file)) + 1
             /\ \A k \in DOMAIN ret.extra : LastJournalEntry[k] = ret.extra[k]

\* under a schema requiring turn and weather: a first call whose extra
\* supplied weather and replaced the turn was appended, a second call whose
\* extra sets turn to None was refused
C27_Witness ==
    /\ Len(hist) = 2
    /\ ReachedRootCheck
    /\ RootRequired = {"turn", "weather"}
    /\ ret.extra = [turn |-> None_]
    /\ ret.raised = "RuntimeError"
    /\ journal_file = pre.journal_file
    /\ Len(JournalLines(journal_file)) = 1
    /\ LastJournalEntry["turn"] = IntV(7)
    /\ LastJournalEntry["weather"] = StrV("rain")
    /\ PlainField("turn") # IntV(7)

-----------------------------------------------------------------------------
(* C28: the turn of the merged document, under SpecMerge *)

\* both documents of the last merge hold an integer under "turn"
BothCarryIntegerTurn ==
    /\ Has(Incoming, "turn") /\ IsInt(Incoming["turn"])
    /\ Has(Current, "turn") /\ IsInt(Current["turn"])

Greater(a, b) == IF a > b THEN a ELSE b

\* C28: import_save_merge never lowers the turn: when both documents carry
\* an integer turn, the merged document's turn is the greater of the two,
\* whichever of the three cases applies.
C28_MergedTurnIsMax ==
    (MergeReturned /\ BothCarryIntegerTurn) =>
        /\ Has(ret.value, "turn")
        /\ ret.value["turn"] = IntV(Greater(Incoming["turn"][2], Current["turn"][2]))

\* incoming at turn 2 merged into a current document at turn 3: turn 3 kept
C28_Witness ==
    /\ MergeReturned
    /\ BothCarryIntegerTurn
    /\ Incoming["turn"] = IntV(2)
    /\ Current["turn"] = IntV(3)
    /\ ret.value["turn"] = IntV(3)
    /\ Has(ret.value, "weather")

-----------------------------------------------------------------------------
(* C29: the four records of a persisted turn, under SpecTurn *)

\* the scene a record names: None and "" both name none
SceneNamed(v) == IF v = None_ THEN StrV("") ELSE v

PersistReturned == ret.op = "persist_turn_and_footer" /\ ret.raised = "none"

\* C29: after a persist_turn_and_footer call that returns normally the
\* four records of the turn agree: the turn of the journal's last entry, of
\* the last dialogue_log entry, of the last turn_log entry and the save's turn
\* field are equal, and the three entries name the same scene.
C29_FourRecordsAgree ==
    PersistReturned =>
        /\ Has(SAVE, "turn")
        /\ LastJournalEntry["turn"] = SAVE["turn"]
        /\ LastOf(SAVE["dialogue_log"]).turn = SAVE["turn"]
        /\ LastOf(SAVE["turn_log"]).turn = SAVE["turn"]
        /\ SceneNamed(LastJournalEntry["scene_ref"]) = LastOf(SAVE["dialogue_log"]).scene
        /\ LastOf(SAVE["dialogue_log"]).scene = LastOf(SAVE["turn_log"]).ref

\* the part that holds: outside IC mode the four turns are one integer, and
\* in every mode the two logs agree with each other and the scenes agree
RecordsAgreeOutsideIC ==
    PersistReturned =>
        /\ LastOf(SAVE["dialogue_log"]).turn = LastOf(SAVE["turn_log"]).turn
        /\ SceneNamed(LastJournalEntry["scene_ref"]) = LastOf(SAVE["dialogue_log"]).scene
        /\ LastOf(SAVE["dialogue_log"]).scene = LastOf(SAVE["turn_log"]).ref
        /\ LastJournalEntry["turn"] = IntV(TurnReading(SAVE).n)
        /\ ~InCharacter(ret.mode) =>
              /\ Has(SAVE, "turn")
              /\ LastJournalEntry["turn"] = SAVE["turn"]
              /\ LastOf(SAVE["dialogue_log"]).turn = SAVE["turn"]

-----------------------------------------------------------------------------
(* SpecPrologue: start_prologue_now, in the two parts its code has: the
   prologue turn (lines 537-547) and the completion (lines 548-550).  While
   the call is between the two, callers holds its position *)

MaxPrologueSteps == 4

BoolV(b) == <<"#bool", b>>

\* what _minimal_save gives of the fields the prologue reads and writes
MinimalSave ==
    [turn |-> IntV(0), loc |-> StrV("Unknown"), time |-> StrV("dawn"),
     flags |-> [prologue |-> [death |-> BoolV(TRUE), completed |-> BoolV(FALSE)]],
     turn_tags |-> <<>>, dialogue_log |-> <<>>, turn_log |-> <<>>]

PrologueOf(save) == Get(Get(save, "flags", EmptyDict), "prologue", EmptyDict)

SetPrologue(save, k, v) ==
    Put(save, "flags", Put(Get(save, "flags", EmptyDict), "prologue",
                           Put(PrologueOf(save), k, v)))

\* completed set before the turn is persisted
MarkPrologue_CompletedFirst(save) ==
    SetPrologue(SetPrologue(save, "death", BoolV(TRUE)), "completed", BoolV(TRUE))

\* lines 537-539
MarkPrologue(save) ==
    SetPrologue(SetPrologue(save, "death", BoolV(TRUE)), "completed", BoolV(FALSE))

PrologueNarration == <<[speaker |-> StrV("Narrator"), text |-> StrV("In your city")]>>
PrologueTags == <<"Prologue", "Earth", "Death">>

\* lines 537-547: the flags marked, then prologue_turn; when it raises the
\* exception leaves start_prologue_now
PrologueTurn(io) ==
    /\ callers = <<>>
    /\ \E r \in {persist_turn_and_footer(MarkPrologue(SAVE), StrV("prologue.death"),
                                         PrologueNarration, PrologueTags, <<"Scan", "Call">>,
                                         None_, "GM", save_file, snapshots, journal_file,
                                         journal_schema, io)} :
          /\ SAVE' = r.save
          /\ save_file' = r.save_file
          /\ snapshots' = r.snapshots
          /\ journal_file' = r.journal_file
          /\ callers' = IF r.raised = "none" THEN <<[pc |-> "completing"]>> ELSE <<>>
          /\ Recorded(Call("prologue_turn", "GM", StrV("prologue.death"), PrologueNarration,
                           PrologueTags, None_),
                      r.raised,
                      [value |-> r.footer, message |-> r.message, step |-> r.step,
                       cause |-> r.cause, io |-> io])
    /\ UNCHANGED <<journal_schema, save_schema, import_file>>

\* lines 548-550: completed set and the save written again
PrologueComplete(io) ==
    /\ callers = <<[pc |-> "completing"]>>
    /\ \E w \in {write_save(SetPrologue(SAVE, "completed", BoolV(TRUE)), TRUE, save_file,
                            snapshots, io)} :
          /\ SAVE' = w.save
          /\ save_file' = w.save_file
          /\ snapshots' = w.snapshots
          /\ Recorded([op |-> "start_prologue_now", mode |-> "GM"], w.raised,
                      [value |-> ret.value, io |-> [save |-> io, journal |-> "ok"]])
    /\ callers' = <<>>
    /\ UNCHANGED <<journal_file, journal_schema, save_schema, import_file>>

InitPrologue ==
    \E save \in {MinimalSave, Put(NewGame, "turn", IntV(0))},
       schema_file \in {Missing, BasicSchema} :
        InitWith(save, schema_file)

PrologueBegin ==
    /\ Len(hist) < MaxPrologueSteps
    /\ \E io \in RaisingIo \cup {[save |-> "silent_empty", journal |-> "ok"]} :
          PrologueTurn(io)

PrologueEnd ==
    \E io \in {"ok", "open_fails", "write_fails", "snapshot_fails"} : PrologueComplete(io)

NextPrologue == PrologueBegin \/ PrologueEnd

SpecPrologue == InitPrologue /\ [][NextPrologue]_vars

\* the document says the prologue is completed
Completed(save) == Get(PrologueOf(save), "completed", BoolV(FALSE)) = BoolV(TRUE)

\* the document a file on storage holds, if it holds one
StoredCompleted(f) == Exists(f) /\ f[2] # <<>> /\ Completed(LoadJson(f[2][1]))

\* the files of storage whose document says completed
CompletedOnStorage ==
    (IF StoredCompleted(save_file) THEN {"save.json"} ELSE {})
        \cup {name \in DOMAIN snapshots : StoredCompleted(snapshots[name])}

\* some prologue turn so far was persisted: the call returned, so the save was
\* written, the entry appended and the post-check passed
ProloguePersisted ==
    /\ \E i \in 1..Len(hist) : hist[i].op = "prologue_turn" /\ hist[i].raised = "none"
    /\ \E i \in 1..Len(JournalLines(journal_file)) :
          JournalLines(journal_file)[i][2].scene_ref = StrV("prologue.death")

\* the files the last step wrote
WrittenByLastStep ==
    (IF save_file # pre.save_file THEN {"save.json"} ELSE {})
        \cup Rewritten(pre.snapshots, snapshots)

\* C30: start_prologue_now sets flags.prologue.completed to True, in memory
\* and in the canonical save, only after the prologue turn has been
\* persisted; when that persistence fails, completed is False in the
\* in-memory save and in every save the call wrote.
C30_CompletedOnlyAfterPersisted ==
    /\ (Completed(SAVE) \/ CompletedOnStorage # {}) => ProloguePersisted
    /\ (ret.op = "prologue_turn") =>
          /\ ~Completed(SAVE)
          /\ WrittenByLastStep \cap CompletedOnStorage = {}
    /\ (ret.op = "start_prologue_now" /\ ret.raised = "none") =>
          /\ Completed(SAVE)
          /\ StoredCompleted(save_file)

\* a first call went through (the snapshot of turn 1 says completed), a
\* second one failed in its journal append: the canonical save and the
\* snapshot of turn 2 it wrote say not completed, as does the document
C30_Witness ==
    /\ Len(hist) = 3
    /\ hist[1].op = "prologue_turn" /\ hist[1].raised = "none"
    /\ hist[2].op = "start_prologue_now" /\ hist[2].raised = "none"
    /\ ret.op = "prologue_turn" /\ ret.raised = "RuntimeError"
    /\ ret.step = "append_journal"
    /\ ~Completed(SAVE)
    /\ CompletedOnStorage = {"1"}
    /\ WrittenByLastStep = {"save.json", "2"}

====
